---- MODULE Spec2Model ----
(***************************************************************************)
(* A state-machine model of the SABRE adaptive-bitrate streaming          *)
(* simulator (sabre.py): the playback buffer, the seek queue, the network *)
(* model and the session loop.                                            *)
(*                                                                         *)
(* Times are milliseconds, sizes are bits, rates are bits/ms, as in the   *)
(* source.  The inputs (manifest, traces, seek schedules) are chosen so   *)
(* that every division the code performs on them is exact; Div stops the  *)
(* model checker should one not be.                                        *)
(***************************************************************************)
EXTENDS Integers, Sequences, FiniteSets, TLC

VARIABLES
    gs,       \* the GlobalState singleton (global_state.py)
    network,  \* the NetworkModel object: trace, index, time_to_next
    args,     \* the command line: no_abandon, replace
    pc,       \* position of the session in __main__ / process_download_loop
    dep,      \* the frame of the deplete_buffer call in progress
    cur,      \* the locals of the current iteration of process_download_loop
    env       \* what the environment (a pluggable ABR) may still choose

vars == <<gs, network, args, pc, dep, cur, env>>

-----------------------------------------------------------------------------
(* Python's None, for the optional fields. *)
None == -1000

(* The code's float division a / b, for a >= 0 and b > 0.  An exact      *)
(* quotient is itself; an inexact one is rounded, as a float is, here to  *)
(* the nearest whole unit of the model (a millisecond, a bit).  Only      *)
(* SpecRounding has inputs with inexact quotients.                        *)
Div(a, b) == IF a % b = 0 THEN a \div b ELSE (2 * a + b) \div (2 * b)

Max(a, b) == IF a >= b THEN a ELSE b

-----------------------------------------------------------------------------
(* The inputs of a run. *)

\* bounds of the model
NumSegments == 3
MaxSeeks == 2
MaxAbrDelays == 1
MaxAbandons == 1

\* the manifest (ManifestInfo)
SegmentTime == 4000
Bitrates == <<3, 6>>
\* utilities[q] = log(bitrates[q]) - log(bitrates[0]), in units of log 2
Utilities == <<0, 1>>
Qualities == 0 .. (Len(Bitrates) - 1)
SegmentSizes == [q \in Qualities |-> Bitrates[q + 1] * SegmentTime]

\* --max-buffer, in seconds
MaxBufferSec == 8
BufferSize == MaxBufferSec * 1000

\* network traces: sequences of NetworkPeriod(time, bandwidth, latency)
Period(t, b, l) == [time |-> t, bandwidth |-> b, latency |-> l]
Traces ==
    { << Period(4000, 12, 1000) >>,
      << Period(3000, 12, 0), Period(5000, 0, 1000) >> }

\* seek schedules: seek_when and seek_to are in seconds.  The events are
\* a seek at time 0, a short forward seek, a seek past the end of the
\* video, a backward seek and a seek to the exact middle of a segment.
SeekEvent(w, t) == [seek_when |-> w, seek_to |-> t]
AllSeekEvents ==
    { SeekEvent(0, 1), SeekEvent(3, 5), SeekEvent(3, 13),
      SeekEvent(6, 1), SeekEvent(6, 6) }

\* sorted(seeks, key=seek_when): the schedules are those sorted by seek_when
IsSortedByWhen(s) ==
    \A i \in 1 .. (Len(s) - 1) : s[i].seek_when <= s[i + 1].seek_when
SeekSchedules ==
    UNION { { s \in [1 .. n -> AllSeekEvents] : IsSortedByWhen(s) } : n \in 0 .. MaxSeeks }

\* the delays a pluggable ABR may ask for
AbrDelays == {0, 1000}

-----------------------------------------------------------------------------
(* get_buffer_level *)
get_buffer_level(g) == SegmentTime * Len(g.buffer_contents) - g.buffer_fcc

(* interrupted_by_seek: the segment a seek to seek_to_ms lands on *)
FloorIdx(seek_to_ms) == seek_to_ms \div SegmentTime
(* variant: a seek to the exact middle of a segment rounds down *)
SeekRoundsDownAtHalf(seek_to_ms) ==
    2 * (seek_to_ms - FloorIdx(seek_to_ms) * SegmentTime) <= SegmentTime
SeekRoundsDown(seek_to_ms) ==
    2 * (seek_to_ms - FloorIdx(seek_to_ms) * SegmentTime) < SegmentTime
NewSegment(seek_to_ms) ==
    IF SeekRoundsDown(seek_to_ms) THEN FloorIdx(seek_to_ms) ELSE FloorIdx(seek_to_ms) + 1

(* variant: the kept suffix starts one entry too late *)
SeekBufferSkipsOneMore(g, new_segment) ==
    LET buffer_base == g.next_segment - Len(g.buffer_contents)
    IN  IF /\ g.buffer_contents # << >>
           /\ new_segment >= buffer_base
           /\ new_segment < g.next_segment
        THEN [buffer_contents |->
                  SubSeq(g.buffer_contents, new_segment - buffer_base + 2,
                         Len(g.buffer_contents)),
              next_segment |-> g.next_segment]
        ELSE [buffer_contents |-> << >>, next_segment |-> new_segment]

(* interrupted_by_seek: the buffer after the seek *)
SeekBuffer(g, new_segment) ==
    LET buffer_base == g.next_segment - Len(g.buffer_contents)
    IN  IF /\ g.buffer_contents # << >>
           /\ new_segment >= buffer_base
           /\ new_segment < g.next_segment
        THEN [buffer_contents |->
                  SubSeq(g.buffer_contents, new_segment - buffer_base + 1,
                         Len(g.buffer_contents)),
              next_segment |-> g.next_segment]
        ELSE [buffer_contents |-> << >>, next_segment |-> new_segment]

(* interrupted_by_seek: the condition under which the head seek is processed *)
(* variant: a seek whose instant playback has already passed is due too *)
SeekDueOrPast(g, delta) ==
    /\ g.seek_events # << >>
    /\ g.total_play_time + delta >= g.seek_events[1].seek_when * 1000

SeekDue(g, delta) ==
    /\ g.seek_events # << >>
    /\ g.total_play_time < g.seek_events[1].seek_when * 1000
    /\ g.total_play_time + delta >= g.seek_events[1].seek_when * 1000

(* variant: the seek is processed and the ABR is not told *)
ApplySeekUnreported(g) ==
    LET event == g.seek_events[1]
        seek_when_ms == event.seek_when * 1000
        seek_to_ms == event.seek_to * 1000
        new_segment == NewSegment(seek_to_ms)
        b == SeekBuffer(g, new_segment)
    IN  [g EXCEPT !.total_play_time = seek_when_ms,
                  !.seek_events = Tail(g.seek_events),
                  !.last_seek_time = seek_when_ms,
                  !.buffer_contents = b.buffer_contents,
                  !.next_segment = b.next_segment,
                  !.buffer_fcc = IF new_segment = FloorIdx(seek_to_ms)
                                 THEN seek_to_ms - FloorIdx(seek_to_ms) * SegmentTime
                                 ELSE 0,
                  !.head_played = /\ @
                                  /\ b.buffer_contents # << >>
                                  /\ Len(b.buffer_contents) = Len(g.buffer_contents)]

(* interrupted_by_seek: the body of the branch that processes the seek *)
ApplySeek(g) ==
    LET event == g.seek_events[1]
        seek_when_ms == event.seek_when * 1000
        seek_to_ms == event.seek_to * 1000
        new_segment == NewSegment(seek_to_ms)
        b == SeekBuffer(g, new_segment)
    IN  [g EXCEPT !.total_play_time = seek_when_ms,
                  !.seek_events = Tail(g.seek_events),
                  !.last_seek_time = seek_when_ms,
                  !.buffer_contents = b.buffer_contents,
                  !.next_segment = b.next_segment,
                  !.buffer_fcc = IF new_segment = FloorIdx(seek_to_ms)
                                 THEN seek_to_ms - FloorIdx(seek_to_ms) * SegmentTime
                                 ELSE 0,
                  !.abr_last_seek = seek_to_ms,
                  !.abr_seek_reports = @ + 1,
                  !.head_played = /\ @
                                  /\ b.buffer_contents # << >>
                                  /\ Len(b.buffer_contents) = Len(g.buffer_contents)]

(* interrupted_by_seek(delta): the state after the call, and what it returns *)
interrupted_by_seek(g, delta) ==
    IF SeekDue(g, delta)
    THEN [g |-> ApplySeek(g), seeked |-> TRUE]
    ELSE [g |-> [g EXCEPT !.total_play_time = @ + delta], seeked |-> FALSE]

-----------------------------------------------------------------------------
(* NetworkModel.  The operators work on w = [g |-> gs, n |-> network]: the *)
(* network model mutates its cursor and gs.network_total_time.            *)

(* Reaction time to increased bandwidth: the list gs.pending_quality_up  *)
(* of [advertised_at, quality] or [advertised_at, quality, completed_at]  *)
Min(a, b) == IF a <= b THEN a ELSE b

(* process_quality_up(now) *)
RECURSIVE process_quality_up(_, _)
process_quality_up(g, now) ==
    LET cutoff == now - g.max_buffer_size
    IN  IF Len(g.pending_quality_up) > 0 /\ g.pending_quality_up[1][1] < cutoff
        THEN LET p == Head(g.pending_quality_up)
                 reaction == IF Len(p) = 2 THEN g.max_buffer_size
                             ELSE Min(g.max_buffer_size, p[3] - p[1])
             IN  process_quality_up(
                     [g EXCEPT !.pending_quality_up = Tail(@),
                               !.total_reaction_time = @ + reaction],
                     now)
        ELSE g

(* advertize_new_network_quality: pending switches above the new quality  *)
(* are marked done (sabre.py 288-290)                                     *)
MarkWithdrawn(pending, quality, now) ==
    [i \in 1 .. Len(pending) |->
        IF Len(pending[i]) = 2 /\ pending[i][2] > quality
        THEN Append(pending[i], now) ELSE pending[i]]

(* deplete_buffer: pending switches the played quality reaches are marked *)
(* done (sabre.py 226-228)                                                *)
MarkReached(pending, quality, now) ==
    [i \in 1 .. Len(pending) |->
        IF Len(pending[i]) = 2 /\ quality >= pending[i][2]
        THEN Append(pending[i], now) ELSE pending[i]]

(* variant: the buffered segments are not looked at *)
NotUpwardsIgnoresBuffer(g, quality, previous_quality) ==
    \/ quality <= previous_quality
    \/ \E i \in 1 .. Len(g.pending_quality_up) : quality <= g.pending_quality_up[i][2]

(* the three tests that filter out switches which are not upwards *)
NotUpwards(g, quality, previous_quality) ==
    \/ quality <= previous_quality
    \/ \E i \in 1 .. Len(g.buffer_contents) : quality <= g.buffer_contents[i][2]
    \/ \E i \in 1 .. Len(g.pending_quality_up) : quality <= g.pending_quality_up[i][2]

(* variant: a new switch is put at the head of the list *)
AdvertizeAtHead(g, quality, previous_quality) ==
    LET now == g.network_total_time
        g1 == process_quality_up(g, now)
        g2 == [g1 EXCEPT !.pending_quality_up = MarkWithdrawn(@, quality, now)]
    IN  IF NotUpwards(g2, quality, previous_quality) THEN g2
        ELSE [g2 EXCEPT !.pending_quality_up = <<(<<now, quality>>)>> \o @]

(* advertize_new_network_quality(quality, previous_quality) *)
advertize_new_network_quality(g, quality, previous_quality) ==
    LET now == g.network_total_time
        g1 == process_quality_up(g, now)
        g2 == [g1 EXCEPT !.pending_quality_up = MarkWithdrawn(@, quality, now)]
    IN  IF NotUpwards(g2, quality, previous_quality) THEN g2
        ELSE [g2 EXCEPT !.pending_quality_up = Append(@, <<now, quality>>)]

(* the session keeps this bookkeeping when its state has the list *)
TracksQualityUp(g) == "pending_quality_up" \in DOMAIN g

(* next_network_period: the loop that sets gs.sustainable_quality, with   *)
(* bitrates[i] > effective_bandwidth = bandwidth * (1 - latency /         *)
(* segment_time) over the session's manifest                              *)
RECURSIVE SustainableQuality(_, _, _)
SustainableQuality(period, i, sustainable_quality) ==
    IF \/ i >= Len(Bitrates)
       \/ Bitrates[i + 1] * SegmentTime > period.bandwidth * (SegmentTime - period.latency)
    THEN sustainable_quality
    ELSE SustainableQuality(period, i + 1, i)

(* next_network_period, from the effective bandwidth on (sabre.py 560-578) *)
UpdateSustainableQuality(g, period) ==
    LET previous_sustainable_quality == g.sustainable_quality
        sustainable_quality == SustainableQuality(period, 1, 0)
    IN  IF sustainable_quality # previous_sustainable_quality
        THEN [advertize_new_network_quality(g, sustainable_quality,
                                            previous_sustainable_quality)
                  EXCEPT !.sustainable_quality = sustainable_quality]
        ELSE g

(* next_network_period at each noted turn, in order *)
RECURSIVE AdvertizeFrom(_, _, _)
AdvertizeFrom(g, trace, changes) ==
    IF changes = << >> THEN g
    ELSE LET at == Head(changes)[1]
             period == trace[Head(changes)[2] + 1]
             g1 == UpdateSustainableQuality([g EXCEPT !.network_total_time = at], period)
         IN  AdvertizeFrom([g1 EXCEPT !.network_total_time = g.network_total_time],
                           trace, Tail(changes))

AdvertizePeriodChanges(g, trace) ==
    IF TracksQualityUp(g)
    THEN [AdvertizeFrom(g, trace, g.period_changes) EXCEPT !.period_changes = << >>]
    ELSE g

(* deplete_buffer: process_quality_up(gs.total_play_time) once the time   *)
(* has been depleted (sabre.py 248)                                       *)
QualityUpAtEnd(g) ==
    IF TracksQualityUp(g) THEN process_quality_up(g, g.total_play_time) ELSE g

CurrentPeriod(w) == w.n.trace[w.n.index + 1]

Elapse(w, time) ==
    [w EXCEPT !.g.network_total_time = @ + time, !.n.time_to_next = @ - time]

(* NetworkModel.next_network_period.  The turn to period i is noted with  *)
(* the network clock in gs.period_changes, and the step that called the   *)
(* network sets gs.sustainable_quality and advertises from the notes      *)
(* (AdvertizePeriodChanges): between the two nothing else touches the     *)
(* buffer or the list of pending switches.                                *)
next_network_period(w) ==
    LET i == IF w.n.index + 1 = Len(w.n.trace) THEN 0 ELSE w.n.index + 1
        w1 == [w EXCEPT !.n.index = i, !.n.time_to_next = w.n.trace[i + 1].time]
    IN  IF TracksQualityUp(w.g)
        THEN [w1 EXCEPT !.g.period_changes = Append(@, <<w.g.network_total_time, i>>)]
        ELSE w1

(* variant: the period ends without the clock being advanced *)
FinishPeriodUnclocked(w) == next_network_period(w)

(* the else-branches that run to the end of the current period *)
FinishPeriod(w) ==
    next_network_period([w EXCEPT !.g.network_total_time = @ + w.n.time_to_next])

(* num / den in lowest terms, for num > 0 and den > 0 *)
RECURSIVE Gcd(_, _)
Gcd(a, b) == IF b = 0 THEN a ELSE Gcd(b, a % b)

Fraction(num, den) == [num |-> num \div Gcd(num, den), den |-> den \div Gcd(num, den)]

(* NetworkModel.do_latency_delay.  delay_units is a fraction once a      *)
(* latency has crossed a period boundary (delay_units -= time_to_next /  *)
(* current_latency): it is kept exactly, as num / den.                   *)
RECURSIVE LatencyDelayLoop(_, _, _)
LatencyDelayLoop(w, delay_units, total_delay) ==
    IF delay_units.num <= 0
    THEN [w |-> w, total_delay |-> total_delay]
    ELSE LET current_latency == CurrentPeriod(w).latency
         IN  IF delay_units.num * current_latency <= w.n.time_to_next * delay_units.den
             THEN LET time == Div(delay_units.num * current_latency, delay_units.den)
                  IN  [w |-> Elapse(w, time), total_delay |-> total_delay + time]
             ELSE LatencyDelayLoop(FinishPeriod(w),
                                   Fraction(delay_units.num * current_latency
                                                - w.n.time_to_next * delay_units.den,
                                            delay_units.den * current_latency),
                                   total_delay + w.n.time_to_next)

do_latency_delay(w, delay_units) ==
    LatencyDelayLoop(w, [num |-> delay_units, den |-> 1], 0)

(* NetworkModel.do_download *)
RECURSIVE DownloadLoop(_, _, _)
DownloadLoop(w, size, total_download_time) ==
    IF size <= 0
    THEN [w |-> w, time |-> total_download_time]
    ELSE LET current_bandwidth == CurrentPeriod(w).bandwidth
         IN  IF size <= w.n.time_to_next * current_bandwidth
             THEN LET time == Div(size, current_bandwidth)
                  IN  [w |-> Elapse(w, time), time |-> total_download_time + time]
             ELSE DownloadLoop(FinishPeriod(w),
                               size - w.n.time_to_next * current_bandwidth,
                               total_download_time + w.n.time_to_next)

do_download(w, size) == DownloadLoop(w, size, 0)

(* NetworkModel.delay *)
RECURSIVE delay(_, _)
delay(w, time) ==
    IF time > w.n.time_to_next
    THEN delay(FinishPeriod(w), time - w.n.time_to_next)
    ELSE Elapse(w, time)

\* NetworkModel.min_progress_size, NetworkModel.min_progress_time
min_progress_size == 12000
min_progress_time == 50

(* NetworkModel.do_minimal_download: one pass of the while loop.          *)
(* The result is the state after the pass and the pass's bits and time;   *)
(* reset tells that the pass zeroed min_size and min_time.                *)
MinimalDownloadPass(w, size, min_size, min_time) ==
    LET current_bandwidth == CurrentPeriod(w).bandwidth
        min_bits == Max(min_size, min_time * current_bandwidth)
        bits_to_next == w.n.time_to_next * current_bandwidth
    IN  IF current_bandwidth > 0
        THEN IF size <= min_bits /\ size <= bits_to_next
             THEN [w |-> Elapse(w, Div(size, current_bandwidth)),
                   bits |-> size, time |-> Div(size, current_bandwidth), reset |-> FALSE]
             ELSE IF min_bits <= bits_to_next
             THEN [w |-> Elapse(w, Div(min_bits, current_bandwidth)),
                   bits |-> min_bits, time |-> Div(min_bits, current_bandwidth),
                   reset |-> TRUE]
             ELSE [w |-> FinishPeriod(w),
                   bits |-> bits_to_next, time |-> w.n.time_to_next, reset |-> FALSE]
        ELSE IF min_size > 0 \/ min_time > w.n.time_to_next
             THEN [w |-> FinishPeriod(w),
                   bits |-> 0, time |-> w.n.time_to_next, reset |-> FALSE]
             ELSE [w |-> Elapse(w, min_time),
                   bits |-> 0, time |-> min_time, reset |-> FALSE]

(* NetworkModel.do_minimal_download *)
RECURSIVE MinimalDownloadLoop(_, _, _, _, _, _)
MinimalDownloadLoop(w, size, min_size, min_time, total_size, total_time) ==
    IF size > 0 /\ (min_size > 0 \/ min_time > 0)
    THEN LET p == MinimalDownloadPass(w, size, min_size, min_time)
         IN  MinimalDownloadLoop(p.w, size - p.bits,
                                 (IF p.reset THEN 0 ELSE min_size) - p.bits,
                                 (IF p.reset THEN 0 ELSE min_time) - p.time,
                                 total_size + p.bits, total_time + p.time)
    ELSE [w |-> w, bits |-> total_size, time |-> total_time]

do_minimal_download(w, size, min_size, min_time) ==
    MinimalDownloadLoop(w, size, min_size, min_time, 0, 0)

-----------------------------------------------------------------------------
(* The abandonment callback handed to NetworkModel.download.              *)
(* ca.kind is "none" (no callback), "abr" (gs.abr.check_abandon) or       *)
(* "replacer" (gs.replacer.check_abandon).  A pluggable ABR may answer    *)
(* anything: its answers are the input ca.at (the invocation that         *)
(* answers ca.to; 0 for never).                                           *)

(* Replace.check_abandon *)
ReplaceCheckAbandon(replacing, buffer_level) ==
    IF replacing = None THEN None
    ELSE IF buffer_level + SegmentTime * replacing <= 0 THEN -1
    ELSE None

check_abandon(ca, k, buffer_level) ==
    IF ca.kind = "replacer" THEN ReplaceCheckAbandon(ca.replacing, buffer_level)
    ELSE IF k = ca.at THEN ca.to ELSE None

NoCallback == [kind |-> "none", at |-> 0, to |-> None, replacing |-> None]

DownloadProgress(size, downloaded, time, time_to_first_bit, abandon_to_quality) ==
    [size |-> size, downloaded |-> downloaded, time |-> time,
     time_to_first_bit |-> time_to_first_bit,
     abandon_to_quality |-> abandon_to_quality]

(* NetworkModel.download: the checkpoint loop (sabre.py 755-803).         *)
(* k counts the callback's invocations; answer is what it last returned;  *)
(* calls lists what each invocation was given.                            *)
RECURSIVE CheckpointLoop(_, _, _, _, _, _, _, _, _, _)
CheckpointLoop(w, size, buffer_level, ca, latency, min_time_to_progress, total_download_time, total_download_size, k, calls) ==
    LET m == do_minimal_download(w, size - total_download_size,
                                 min_progress_size, min_time_to_progress)
        time == total_download_time + m.time
        bits == total_download_size + m.bits
        answer == check_abandon(ca, k + 1, Max(0, buffer_level - time))
        called == Append(calls, [progress |-> DownloadProgress(size, bits, time, latency, None),
                                 buffer_level |-> Max(0, buffer_level - time)])
    IN  IF bits < size
        THEN IF answer # None
             THEN [w |-> m.w, answer |-> answer, checks |-> k + 1, calls |-> called,
                   dp |-> DownloadProgress(size, bits, time, latency, answer)]
             ELSE CheckpointLoop(m.w, size, buffer_level, ca, latency,
                                 min_progress_time, time, bits, k + 1, called)
        ELSE [w |-> m.w, answer |-> None, checks |-> k, calls |-> calls,
              dp |-> DownloadProgress(size, bits, time, latency, None)]

(* download with the latency left out of the reported time *)
downloadLatencyUncounted(w, size, buffer_level, ca) ==
    LET l == do_latency_delay(w, 1)
        d == do_download(l.w, size)
    IN  [w |-> d.w, answer |-> None, checks |-> 0, calls |-> << >>,
         dp |-> DownloadProgress(size, size, d.time, l.total_delay, None)]

(* download that starts the checkpoint loop before the latency is charged *)
downloadChecksBeforeLatency(w, size, buffer_level, ca) ==
    IF ca.kind = "none"
    THEN LET l == do_latency_delay(w, 1)
             d == do_download(l.w, size)
         IN  [w |-> d.w, answer |-> None, checks |-> 0, calls |-> << >>,
              dp |-> DownloadProgress(size, size, l.total_delay + d.time,
                                      l.total_delay, None)]
    ELSE CheckpointLoop(w, size, buffer_level, ca, 0, min_progress_time, 0, 0, 0, << >>)

(* NetworkModel.download.  min_progress_size > 0, so the branch that      *)
(* interleaves do_minimal_latency_delay is never taken.                   *)
download(w, size, buffer_level, ca) ==
    IF size <= 0
    THEN [w |-> w, answer |-> None, checks |-> 0, calls |-> << >>,
          dp |-> DownloadProgress(0, 0, 0, 0, None)]
    ELSE LET l == do_latency_delay(w, 1)
         IN  IF ca.kind = "none"
             THEN LET d == do_download(l.w, size)
                  IN  [w |-> d.w, answer |-> None, checks |-> 0, calls |-> << >>,
                       dp |-> DownloadProgress(size, size, l.total_delay + d.time,
                                               l.total_delay, None)]
             ELSE CheckpointLoop(l.w, size, buffer_level, ca, l.total_delay,
                                 min_progress_time - l.total_delay,
                                 l.total_delay, 0, 0, << >>)

-----------------------------------------------------------------------------
(* Replace.check_replace (abr_algorithms.py): strategy 0 is "left",       *)
(* strategy 1 is "right"; NoReplace answers None.                         *)
CeilDiv(a, b) == (a + b - 1) \div b

SetMin(S) == CHOOSE x \in S : \A y \in S : x <= y
SetMax(S) == CHOOSE x \in S : \A y \in S : x >= y

check_replace(g, strategy, quality) ==
    LET n == Len(g.buffer_contents)
        skip == CeilDiv(3 * SegmentTime + 2 * g.buffer_fcc, 2 * SegmentTime)
        lower == { i \in skip .. (n - 1) : g.buffer_contents[i + 1][2] < quality }
    IN  IF strategy = "none" \/ lower = {} THEN None
        ELSE IF strategy = "left" THEN SetMin(lower) - n
        ELSE SetMax(lower) - n

-----------------------------------------------------------------------------
(* The session: __main__ and process_download_loop.                       *)

W == [g |-> gs, n |-> network]

(* len(gs.manifest.segments) and gs.manifest.segments[i][quality] *)
NumberOfSegments(g) == g.num_segments
SegmentSize(i, quality) == SegmentSizes[quality]

(* the state __main__ sets up before the first download *)
InitialState(seeks, buffer_size, num_segments) ==
    [buffer_contents |-> << >>,
     buffer_fcc |-> 0,
     next_segment |-> 0,
     total_play_time |-> 0,
     last_seek_time |-> 0,
     network_total_time |-> 0,
     rebuffer_event_count |-> 0,
     rebuffer_time |-> 0,
     segment_rebuffer_time |-> 0,
     played_utility |-> 0,
     played_bitrate |-> 0,
     last_played |-> None,
     startup_time |-> 0,
     abandoned_to_quality |-> None,
     seek_events |-> seeks,
     buffer_size |-> buffer_size,
     num_segments |-> num_segments,
     \* what the collaborators have been told: the ABR (report_seek,
     \* report_delay, report_download) and the throughput history (push)
     abr_last_seek |-> None,
     abr_seek_reports |-> 0,
     abr_delay_reports |-> 0,
     abr_download_reports |-> 0,
     throughput_pushes |-> 0,
     \* the number of buffer entries playback has popped
     segments_consumed |-> 0,
     \* the buffer entries playback has played from, in the order it began
     \* them, and whether it has begun the entry now at the head
     played |-> << >>,
     head_played |-> FALSE,
     \* whether some download so far took segment_time or longer
     slow_download |-> FALSE]

(* NetworkModel.__init__ *)
InitialNetwork(trace) == [trace |-> trace, index |-> 0, time_to_next |-> trace[1].time]

IdleFrame == [ret |-> "none", time |-> 0, phase |-> "idle", ok |-> TRUE]

NoDownload == DownloadProgress(0, 0, 0, 0, None)
NoLocals ==
    [quality |-> 0, delay |-> 0, replace |-> None, current_segment |-> 0,
     size |-> 0, kind |-> "none", full_delay |-> 0, dm |-> NoDownload,
     answer |-> None]

(* --replace and --abr (sabre.py 1704-1711, 1777-1784): "bolae" stands for  *)
(* an ABR whose get_quality_delay answers, whatever it answers.           *)
(* args.classes is the file whose policy classes the session uses:        *)
(* sabre.py runs its own, abr_algorithms.py holds a second copy of them.  *)
Replacers == {"none", "left", "right"}
Abrs == {"bolae", "bba"}

Init ==
    /\ \E seeks \in SeekSchedules :
           gs = InitialState(seeks, BufferSize, NumSegments)
    /\ \E trace \in Traces : network = InitialNetwork(trace)
    /\ \E na \in BOOLEAN, r \in Replacers, a \in Abrs :
           args = [no_abandon |-> na, replace |-> r, abr |-> a,
                   classes |-> "sabre.py"]
    /\ pc = "start"
    /\ dep = IdleFrame
    /\ cur = NoLocals
    /\ env = [delays |-> MaxAbrDelays, abandons |-> MaxAbandons]

(* The session with a replacement policy: enough segments and a buffer    *)
(* long enough for check_replace to find an entry past skip, under the    *)
(* Replace class of either file.                                          *)
ReplaceSegments == NumSegments + 2
ReplaceBufferSize == 2 * MaxBufferSec * 1000
\* a slow network, and one fast enough to fill the buffer that then stalls
ReplaceTraces == { << Period(4000, 12, 1000) >>, << Period(3000, 24, 0), Period(9000, 0, 1000) >> }
ReplaceSeekSchedules == { << >>, << SeekEvent(6, 6) >> }

ReplaceInit ==
    /\ \E seeks \in ReplaceSeekSchedules :
           gs = InitialState(seeks, ReplaceBufferSize, ReplaceSegments)
    /\ \E trace \in ReplaceTraces : network = InitialNetwork(trace)
    /\ \E na \in BOOLEAN, r \in {"left", "right"}, c \in {"sabre.py", "abr_algorithms.py"} :
           args = [no_abandon |-> na, replace |-> r, abr |-> "bolae", classes |-> c]
    /\ pc = "start"
    /\ dep = IdleFrame
    /\ cur = NoLocals
    /\ env = [delays |-> MaxAbrDelays, abandons |-> MaxAbandons]

(* Abr.get_first_quality *)
get_first_quality == 0

(* ThroughputHistory.push, as the count of samples pushed *)
PushThroughput(g) == [g EXCEPT !.throughput_pushes = @ + 1]

(* __main__: download first segment (sabre.py 1920-1930, 1983-1984) *)
Startup ==
    /\ pc = "start"
    /\ LET quality == get_first_quality
           r == download(W, SegmentSize(0, quality), 0, NoCallback)
           download_time == r.dp.time - r.dp.time_to_first_bit
       IN  /\ gs' = [PushThroughput(AdvertizePeriodChanges(r.w.g, network.trace)) EXCEPT
                        !.startup_time = download_time,
                        !.buffer_contents = Append(@, <<0, quality>>),
                        !.total_play_time = @ + r.dp.time,
                        !.slow_download = @ \/ r.dp.time >= SegmentTime,
                        !.next_segment = 1,
                        !.abandoned_to_quality = None]
           /\ network' = r.w.n
    /\ pc' = "loop"
    /\ UNCHANGED <<args, dep, cur, env>>

(* a call of deplete_buffer(time): the frame, past the tests of the empty *)
(* buffer and of buffer_fcc > 0 when both fail (sabre.py 188, 196)        *)
CallDeplete(g, ret, time) ==
    [ret |-> ret, time |-> time, ok |-> TRUE,
     phase |-> IF g.buffer_contents # << >> /\ ~(g.buffer_fcc > 0)
               THEN "loop" ELSE "entry"]

(* the frame once deplete_buffer has returned ok *)
Returned(ok) == [ret |-> dep.ret, time |-> 0, phase |-> "idle", ok |-> ok]

(* where each caller of deplete_buffer resumes *)
ReturnTo(ret) ==
    CASE ret = "full" -> "full_ret"
      [] ret = "delay" -> "delay_ret"
      [] ret = "download" -> "download_ret"
      [] ret = "playout" -> "playout_ret"

(* variant: the delay does not take the buffer's capacity into account *)
FullDelayIgnoresCapacity(g) == get_buffer_level(g) + SegmentTime

(* variant: the delay leaves no room for the segment to come *)
FullDelayToCapacity(g) == get_buffer_level(g) - g.buffer_size

(* process_download_loop: the full-buffer delay (sabre.py 307-312) *)
full_delay(g) == get_buffer_level(g) + SegmentTime - g.buffer_size

LoopTop ==
    /\ pc = "loop"
    /\ gs.next_segment < NumberOfSegments(gs)
    /\ IF full_delay(gs) > 0
       THEN /\ dep' = CallDeplete(gs, "full", full_delay(gs))
            /\ cur' = [cur EXCEPT !.full_delay = full_delay(gs)]
            /\ pc' = "deplete"
       ELSE /\ pc' = "decide"
            /\ UNCHANGED <<dep, cur>>
    /\ UNCHANGED <<gs, network, args, env>>

(* process_download_loop: after deplete_buffer(full_delay) (sabre.py 311-314) *)
AfterFullDelay ==
    /\ pc = "full_ret"
    /\ IF dep.ok
       THEN LET w == delay(W, cur.full_delay)
            IN  /\ gs' = [AdvertizePeriodChanges(w.g, network.trace) EXCEPT
                              !.abr_delay_reports = @ + 1]
                /\ network' = w.n
                /\ pc' = "decide"
                /\ cur' = cur
       ELSE /\ pc' = "loop"
            /\ cur' = NoLocals
            /\ UNCHANGED <<gs, network>>
    /\ dep' = IdleFrame
    /\ UNCHANGED <<args, env>>

(* what the ABR may answer to get_quality_delay *)
AbrAnswers ==
    { <<q, d>> : q \in Qualities,
                 d \in IF env.delays > 0 THEN AbrDelays ELSE {0} }

(* Bba.get_quality_delay raises NotImplementedError (sabre.py 1541-1542)   *)
(* and Replace.check_replace reads the module global buffer_fcc, which    *)
(* no statement defines (sabre.py 1570-1579, 1596): either call ends the  *)
(* session with an exception.                                             *)
Raises ==
    \/ args.abr = "bba"
    \/ args.classes = "sabre.py" /\ args.replace \in {"left", "right"}

(* process_download_loop: the exception leaves the loop (sabre.py 319-321) *)
DecideRaises ==
    /\ pc = "decide"
    /\ gs.abandoned_to_quality = None
    /\ Raises
    /\ pc' = "raised"
    /\ UNCHANGED <<gs, network, args, dep, cur, env>>

(* process_download_loop: quality, delay and replacement (sabre.py 318-344) *)
Decide ==
    /\ pc = "decide"
    /\ gs.abandoned_to_quality = None => ~Raises
    /\ \E a \in IF gs.abandoned_to_quality = None
                THEN AbrAnswers ELSE { <<gs.abandoned_to_quality, 0>> } :
         LET quality == a[1]
             replace == IF gs.abandoned_to_quality = None
                        THEN check_replace(gs, args.replace, quality) ELSE None
             d == IF replace # None THEN 0 ELSE a[2]
             current_segment == IF replace # None THEN gs.next_segment + replace
                                ELSE gs.next_segment
             kind == IF args.no_abandon THEN "none"
                     ELSE IF replace # None THEN "replacer" ELSE "abr"
         IN  /\ cur' = [cur EXCEPT !.quality = quality, !.delay = d,
                                   !.replace = replace,
                                   !.current_segment = current_segment,
                                   !.size = SegmentSize(current_segment, quality),
                                   !.kind = kind]
             /\ gs' = [gs EXCEPT !.abandoned_to_quality = None]
             /\ env' = [env EXCEPT !.delays = IF a[2] > 0 THEN @ - 1 ELSE @]
             /\ IF d > 0
                THEN /\ dep' = CallDeplete(gs, "delay", d)
                     /\ pc' = "deplete"
                ELSE /\ dep' = dep
                     /\ pc' = "download"
    /\ UNCHANGED <<network, args>>

(* process_download_loop: after deplete_buffer(delay) (sabre.py 340-342) *)
AfterAbrDelay ==
    /\ pc = "delay_ret"
    /\ IF dep.ok
       THEN LET w == delay(W, cur.delay)
            IN  /\ gs' = AdvertizePeriodChanges(w.g, network.trace)
                /\ network' = w.n
                /\ pc' = "download"
                /\ cur' = cur
       ELSE /\ pc' = "loop"
            /\ cur' = NoLocals
            /\ UNCHANGED <<gs, network>>
    /\ dep' = IdleFrame
    /\ UNCHANGED <<args, env>>

(* the invocations of the callback at which a pluggable ABR may abandon *)
Checkpoints == 0 .. 2

(* process_download_loop: gs.network.download and the call of             *)
(* deplete_buffer(download_metric.time) (sabre.py 346-349)                *)
Download ==
    /\ pc = "download"
    /\ \E at \in Checkpoints, to \in Qualities \cup {None} :
         /\ (at = 0) <=> (to = None)
         /\ at > 0 => /\ cur.kind = "abr"
                      /\ env.abandons > 0
                      /\ to < cur.quality
         /\ LET ca == [kind |-> cur.kind, at |-> at, to |-> to,
                       replacing |-> cur.replace]
                r == download(W, cur.size, get_buffer_level(gs), ca)
            IN  /\ at > 0 => r.checks >= at
                /\ gs' = [AdvertizePeriodChanges(r.w.g, network.trace) EXCEPT
                              !.slow_download = @ \/ r.dp.time >= SegmentTime]
                /\ network' = r.w.n
                /\ cur' = [cur EXCEPT !.dm = r.dp, !.answer = r.answer]
                /\ dep' = CallDeplete(gs, "download", r.dp.time)
         /\ env' = [env EXCEPT !.abandons = IF at > 0 THEN @ - 1 ELSE @]
    /\ pc' = "deplete"
    /\ UNCHANGED args

-----------------------------------------------------------------------------
(* deplete_buffer(time), one step for each block of the function that     *)
(* advances the playback clock with one call of interrupted_by_seek.      *)
(* dep.time is what is left of the time to deplete.                       *)

(* after a block that ends the call: back to the caller *)
Return(ok) ==
    /\ dep' = Returned(ok)
    /\ pc' = ReturnTo(dep.ret)

(* variant: a rebuffering block that counts no rebuffer event *)
RebufferUncounted(g, time) ==
    LET r == interrupted_by_seek([g EXCEPT !.rebuffer_time = @ + time], time)
    IN  IF r.seeked
        THEN r
        ELSE [g |-> [r.g EXCEPT !.segment_rebuffer_time = time],
              seeked |-> FALSE]

(* the rebuffering blocks (sabre.py 188-194 and 241-246) *)
Rebuffer(g, time) ==
    LET r == interrupted_by_seek([g EXCEPT !.rebuffer_time = @ + time], time)
    IN  IF r.seeked
        THEN r
        ELSE [g |-> [r.g EXCEPT !.rebuffer_event_count = @ + 1,
                                !.segment_rebuffer_time = time],
              seeked |-> FALSE]

(* the buffer is empty on entry (sabre.py 188-194) *)
DepleteEmpty ==
    /\ pc = "deplete"
    /\ dep.phase = "entry"
    /\ gs.buffer_contents = << >>
    /\ LET r == Rebuffer(gs, dep.time)
       IN  /\ gs' = r.g
           /\ Return(~r.seeked)
    /\ UNCHANGED <<network, args, cur, env>>

(* playback begins the entry at the head of the buffer, unless it has *)
BeginHead(g) ==
    IF g.head_played THEN g
    ELSE [g EXCEPT !.played = Append(@, g.buffer_contents[1]),
                   !.head_played = TRUE]

(* variant: the first chunk is kept when the time plays it to its end *)
PlayHeadInclusive(g, time) ==
    IF time + g.buffer_fcc <= SegmentTime
    THEN LET r == interrupted_by_seek(
                      [(IF time > 0 THEN BeginHead(g) ELSE g) EXCEPT
                           !.buffer_fcc = @ + time], time)
         IN  [g |-> r.g, seeked |-> r.seeked, done |-> TRUE, time |-> 0]
    ELSE LET dt == SegmentTime - g.buffer_fcc
             r == interrupted_by_seek(BeginHead(g), dt)
         IN  IF r.seeked
             THEN [g |-> r.g, seeked |-> TRUE, done |-> TRUE, time |-> 0]
             ELSE [g |-> [r.g EXCEPT !.buffer_contents = Tail(@),
                                     !.buffer_fcc = 0,
                                     !.head_played = FALSE,
                                     !.segments_consumed = @ + 1],
                   seeked |-> FALSE, done |-> FALSE, time |-> time - dt]

(* the rest of the first chunk is played (sabre.py 196-208) *)
PlayHead(g, time) ==
    IF time + g.buffer_fcc < SegmentTime
    THEN LET r == interrupted_by_seek(
                      [(IF time > 0 THEN BeginHead(g) ELSE g) EXCEPT
                           !.buffer_fcc = @ + time], time)
         IN  [g |-> r.g, seeked |-> r.seeked, done |-> TRUE, time |-> 0]
    ELSE LET dt == SegmentTime - g.buffer_fcc
             r == interrupted_by_seek(BeginHead(g), dt)
         IN  IF r.seeked
             THEN [g |-> r.g, seeked |-> TRUE, done |-> TRUE, time |-> 0]
             ELSE [g |-> [r.g EXCEPT !.buffer_contents = Tail(@),
                                     !.buffer_fcc = 0,
                                     !.head_played = FALSE,
                                     !.segments_consumed = @ + 1],
                   seeked |-> FALSE, done |-> FALSE, time |-> time - dt]

DepleteHead ==
    /\ pc = "deplete"
    /\ dep.phase = "entry"
    /\ gs.buffer_contents # << >>
    /\ LET r == PlayHead(gs, dep.time)
       IN  /\ gs' = r.g
           /\ IF r.done
              THEN Return(~r.seeked)
              ELSE /\ dep' = [dep EXCEPT !.time = r.time, !.phase = "loop"]
                   /\ pc' = pc
    /\ UNCHANGED <<network, args, cur, env>>

(* a chunk starts to play: the statistics and the pending switches its    *)
(* quality reaches (sabre.py 212-218, 225-228)                            *)
StartChunk(g) ==
    LET quality == g.buffer_contents[1][2]
        g1 == [g EXCEPT !.played_utility = @ + Utilities[quality + 1],
                        !.played_bitrate = @ + Bitrates[quality + 1],
                        !.last_played = quality]
    IN  IF TracksQualityUp(g)
        THEN [g1 EXCEPT !.pending_quality_up = MarkReached(@, quality, g.total_play_time)]
        ELSE g1

(* one pass of the loop over full segments (sabre.py 211-239) *)
PlaySegment(g, time) ==
    IF time >= SegmentTime
    THEN LET r == interrupted_by_seek(
                      [BeginHead(StartChunk(g)) EXCEPT
                           !.buffer_contents = Tail(@),
                           !.head_played = FALSE,
                           !.segments_consumed = @ + 1],
                      SegmentTime)
         IN  [g |-> r.g, seeked |-> r.seeked, time |-> time - SegmentTime]
    ELSE LET r == interrupted_by_seek(
                      [BeginHead(StartChunk(g)) EXCEPT !.buffer_fcc = time], time)
         IN  [g |-> r.g, seeked |-> r.seeked, time |-> 0]

DepleteSegment ==
    /\ pc = "deplete"
    /\ dep.phase = "loop"
    /\ dep.time > 0
    /\ gs.buffer_contents # << >>
    /\ LET r == PlaySegment(gs, dep.time)
       IN  /\ gs' = r.g
           /\ IF r.seeked
              THEN Return(FALSE)
              ELSE /\ dep' = [dep EXCEPT !.time = r.time]
                   /\ pc' = pc
    /\ UNCHANGED <<network, args, cur, env>>

(* after the loop: the time left is rebuffering (sabre.py 241-249) *)
DepleteTail ==
    /\ pc = "deplete"
    /\ dep.phase = "loop"
    /\ ~(dep.time > 0 /\ gs.buffer_contents # << >>)
    /\ IF dep.time > 0
       THEN LET r == Rebuffer(gs, dep.time)
            IN  /\ gs' = IF r.seeked THEN r.g ELSE QualityUpAtEnd(r.g)
                /\ Return(~r.seeked)
       ELSE /\ gs' = QualityUpAtEnd(gs)
            /\ Return(TRUE)
    /\ UNCHANGED <<network, args, cur, env>>

(* deplete_buffer(time) as one call: the blocks above in the order the    *)
(* function runs them; ok is what the call returns                        *)
RECURSIVE DepleteLoop(_, _)
DepleteLoop(g, time) ==
    IF time > 0 /\ g.buffer_contents # << >>
    THEN LET r == PlaySegment(g, time)
         IN  IF r.seeked THEN [g |-> r.g, ok |-> FALSE]
             ELSE DepleteLoop(r.g, r.time)
    ELSE IF time > 0
         THEN LET r == Rebuffer(g, time)
              IN  [g |-> IF r.seeked THEN r.g ELSE QualityUpAtEnd(r.g), ok |-> ~r.seeked]
         ELSE [g |-> QualityUpAtEnd(g), ok |-> TRUE]

deplete_buffer(g, time) ==
    IF g.buffer_contents = << >>
    THEN LET r == Rebuffer(g, time) IN [g |-> r.g, ok |-> ~r.seeked]
    ELSE IF g.buffer_fcc > 0
         THEN LET h == PlayHead(g, time)
              IN  IF h.done THEN [g |-> h.g, ok |-> ~h.seeked]
                  ELSE DepleteLoop(h.g, h.time)
         ELSE DepleteLoop(g, time)

-----------------------------------------------------------------------------
(* variant: an abandoned attempt advances next_segment as well *)
UpdateBufferAdvancesAbandoned(g, replace, quality, dm) ==
    IF replace = None
    THEN IF dm.abandon_to_quality = None
         THEN [g EXCEPT !.buffer_contents = Append(@, <<g.next_segment, quality>>),
                        !.next_segment = @ + 1]
         ELSE [g EXCEPT !.abandoned_to_quality = dm.abandon_to_quality,
                        !.next_segment = @ + 1]
    ELSE g

(* variant: the slot is overwritten whenever it is still in the buffer,   *)
(* playing or not                                                         *)
UpdateBufferReplacesPlaying(g, replace, quality, dm) ==
    IF replace = None
    THEN IF dm.abandon_to_quality = None
         THEN [g EXCEPT !.buffer_contents = Append(@, <<g.next_segment, quality>>),
                        !.next_segment = @ + 1]
         ELSE [g EXCEPT !.abandoned_to_quality = dm.abandon_to_quality]
    ELSE IF /\ dm.abandon_to_quality = None
            /\ Len(g.buffer_contents) + replace >= 0
         THEN [g EXCEPT !.buffer_contents[Len(g.buffer_contents) + replace + 1] =
                            <<@[1], quality>>]
         ELSE g

(* process_download_loop: the buffer takes the download (sabre.py 490-505) *)
UpdateBuffer(g, replace, quality, dm) ==
    IF replace = None
    THEN IF dm.abandon_to_quality = None
         THEN [g EXCEPT !.buffer_contents = Append(@, <<g.next_segment, quality>>),
                        !.next_segment = @ + 1]
         ELSE [g EXCEPT !.abandoned_to_quality = dm.abandon_to_quality]
    ELSE IF /\ dm.abandon_to_quality = None
            /\ get_buffer_level(g) + SegmentTime * replace >= 0
         THEN [g EXCEPT !.buffer_contents[Len(g.buffer_contents) + replace + 1] =
                            <<@[1], quality>>]
         ELSE g

(* variant: a throughput sample is pushed for abandoned attempts too *)
RecordThroughputAlways(g, dm) == PushThroughput(g)

(* process_download_loop: the throughput sample (sabre.py 534-535) *)
RecordThroughput(g, dm) ==
    IF dm.abandon_to_quality = None THEN PushThroughput(g) ELSE g

(* AfterDownload without the test of deplete_buffer's result *)
AfterDownloadKeepsInterrupted ==
    /\ pc = "download_ret"
    /\ gs' = RecordThroughput(
                  [UpdateBuffer(gs, cur.replace, cur.quality, cur.dm)
                       EXCEPT !.abr_download_reports = @ + 1],
                  cur.dm)
    /\ pc' = "loop"
    /\ dep' = IdleFrame
    /\ cur' = NoLocals
    /\ UNCHANGED <<network, args, env>>

(* process_download_loop: after deplete_buffer(download_metric.time)      *)
(* (sabre.py 351-353, 422, 490-535)                                       *)
AfterDownload ==
    /\ pc = "download_ret"
    /\ IF dep.ok
       THEN gs' = RecordThroughput(
                      [UpdateBuffer(gs, cur.replace, cur.quality, cur.dm)
                           EXCEPT !.abr_download_reports = @ + 1],
                      cur.dm)
       ELSE gs' = gs
    /\ pc' = "loop"
    /\ dep' = IdleFrame
    /\ cur' = NoLocals
    /\ UNCHANGED <<network, args, env>>

(* __main__: the loop is over, playout_buffer is called (sabre.py 1985-1988, 253) *)
CallPlayout ==
    /\ pc = "loop"
    /\ gs.next_segment >= NumberOfSegments(gs)
    /\ dep' = CallDeplete(gs, "playout", get_buffer_level(gs))
    /\ pc' = "deplete"
    /\ UNCHANGED <<gs, network, args, cur, env>>

(* playout_buffer: after deplete_buffer (sabre.py 255-257) *)
AfterPlayout ==
    /\ pc = "playout_ret"
    /\ gs' = [gs EXCEPT !.buffer_contents = << >>, !.buffer_fcc = 0,
                         !.head_played = FALSE]
    /\ pc' = "done"
    /\ dep' = IdleFrame
    /\ UNCHANGED <<network, args, cur, env>>

Next ==
    \/ Startup
    \/ LoopTop
    \/ AfterFullDelay
    \/ Decide
    \/ DecideRaises
    \/ AfterAbrDelay
    \/ Download
    \/ DepleteEmpty
    \/ DepleteHead
    \/ DepleteSegment
    \/ DepleteTail
    \/ AfterDownload
    \/ CallPlayout
    \/ AfterPlayout

Spec == Init /\ [][Next]_vars

(* The interpreter runs the session's next statement whenever there is    *)
(* one: a session that has neither ended nor raised takes another step.   *)
(* Every step of Next moves pc or the deplete_buffer frame, and Run says  *)
(* no more than that, so the condition is weak fairness of Next.          *)
SessionOver == pc \in {"done", "raised"}
Positions == {"start", "loop", "decide", "download", "deplete", "full_ret", "delay_ret", "download_ret", "playout_ret", "done", "raised"}
FrameTimes == (0 - 8 * NumSegments * SegmentTime) .. (8 * NumSegments * SegmentTime)
Frames == [ret : {"none", "full", "delay", "download", "playout"}, time : FrameTimes, phase : {"idle", "entry", "loop"}, ok : BOOLEAN]
Run == ~SessionOver /\ pc' \in Positions /\ dep' \in Frames

FairSpec == Spec /\ WF_<<pc, dep>>(Run)

SpecReplace == ReplaceInit /\ [][Next]_vars

-----------------------------------------------------------------------------
(* Vocabulary of the properties. *)

(* the step applies the seek at the head of the queue *)
SeekApplied == Len(gs'.seek_events) < Len(gs.seek_events)

(* the head seek's instant and target position, in ms *)
HeadSeekWhenMs == gs.seek_events[1].seek_when * 1000
HeadSeekToMs == gs.seek_events[1].seek_to * 1000

(* round half up of a position to a segment index, and the offset into   *)
(* the segment the position falls in                                     *)
OffsetInSegment(ms) == ms % SegmentTime
RoundsDown(ms) == 2 * OffsetInSegment(ms) < SegmentTime
RoundHalfUp(ms) ==
    IF RoundsDown(ms) THEN ms \div SegmentTime ELSE (ms \div SegmentTime) + 1

(* the segment playback is at *)
HeadOfPlayback(g) ==
    IF g.buffer_contents # << >> THEN g.buffer_contents[1][1] ELSE g.next_segment

(* the step is a block of deplete_buffer that advances the playback clock, *)
(* and the delta it hands to interrupted_by_seek                          *)
RebufferBlock ==
    /\ pc = "deplete"
    /\ \/ dep.phase = "entry" /\ gs.buffer_contents = << >>
       \/ dep.phase = "loop" /\ gs.buffer_contents = << >> /\ dep.time > 0
Advances == pc = "deplete" /\ ~(dep.phase = "loop" /\ dep.time <= 0)
AdvanceDelta ==
    IF gs.buffer_contents = << >> THEN dep.time
    ELSE IF dep.phase = "entry"
         THEN IF dep.time + gs.buffer_fcc < SegmentTime
              THEN dep.time ELSE SegmentTime - gs.buffer_fcc
         ELSE IF dep.time >= SegmentTime THEN SegmentTime ELSE dep.time

(* deplete_buffer has just returned "interrupted by a seek" *)
JustInterrupted ==
    pc \in {"full_ret", "delay_ret", "download_ret", "playout_ret"} /\ ~dep.ok

IsSuffix(s, t) == \E k \in 0 .. Len(t) : s = SubSeq(t, k + 1, Len(t))

Contiguous(g) ==
    /\ \A i \in 1 .. (Len(g.buffer_contents) - 1) :
           g.buffer_contents[i + 1][1] = g.buffer_contents[i][1] + 1
    /\ g.buffer_contents # << >> =>
           g.buffer_contents[Len(g.buffer_contents)][1] = g.next_segment - 1

-----------------------------------------------------------------------------
(* C1: in every step of a run, total_play_time does not decrease and      *)
(* network_total_time does not decrease.                                  *)
C1_TimeNeverDecreases ==
    [][/\ gs'.total_play_time >= gs.total_play_time
       /\ gs'.network_total_time >= gs.network_total_time]_vars

(* C2: once the abandonment callback has answered non-null, the           *)
(* DownloadProgress of that download carries the answer in                *)
(* abandon_to_quality and has downloaded < size, and no step of the loop  *)
(* pushes a throughput sample for that attempt.                           *)
C2_AbandonmentConsistency ==
    [][cur.answer # None =>
           /\ cur.dm.abandon_to_quality = cur.answer
           /\ cur.dm.downloaded < cur.dm.size
           /\ gs'.throughput_pushes = gs.throughput_pushes]_vars

(* an abandoned attempt has gone through the loop's buffer update *)
C2_Witness == pc = "loop" /\ gs.abandoned_to_quality # None

(* C3: in every reachable state 0 <= buffer_fcc < segment_time. *)
C3_FccInRange == 0 <= gs.buffer_fcc /\ gs.buffer_fcc < SegmentTime

(* a partly played head, after segments were played and a seek applied *)
C3_Witness ==
    /\ gs.buffer_fcc > 0
    /\ gs.buffer_contents # << >>
    /\ gs.segments_consumed > 0
    /\ gs.abr_seek_reports > 0
    /\ gs.next_segment > 1

(* C4: after every step the buffer's entries carry consecutive ascending  *)
(* segment indices ending at next_segment - 1; and a step that applies a  *)
(* seek leaves the buffer empty with next_segment at the seek's target,   *)
(* or leaves a suffix of the buffer whose head is the seek's target.      *)
C4_BufferContiguous ==
    [][/\ Contiguous(gs')
       /\ SeekApplied =>
            \/ /\ gs'.buffer_contents = << >>
               /\ gs'.next_segment = RoundHalfUp(HeadSeekToMs)
            \/ /\ gs'.buffer_contents # << >>
               /\ IsSuffix(gs'.buffer_contents, gs.buffer_contents)
               /\ gs'.buffer_contents[1][1] = RoundHalfUp(HeadSeekToMs)]_vars

(* a seek has just kept a suffix of a buffer of several entries *)
C4_Witness ==
    /\ JustInterrupted
    /\ gs.buffer_contents # << >>
    /\ gs.buffer_contents[1][1] > 0

(* C5: a step that applies a seek to position p leaves playback at        *)
(* segment round_half_up(p / segment_time), with buffer_fcc the offset of *)
(* p in its segment when the seek rounded down and 0 when it rounded up.  *)
C5_SeekAlignment ==
    [][SeekApplied =>
           /\ HeadOfPlayback(gs') = RoundHalfUp(HeadSeekToMs)
           /\ gs'.buffer_fcc = IF RoundsDown(HeadSeekToMs)
                               THEN OffsetInSegment(HeadSeekToMs) ELSE 0
           /\ 0 <= gs'.buffer_fcc /\ gs'.buffer_fcc < SegmentTime]_vars

(* a seek has just landed inside a segment *)
C5_Witness == JustInterrupted /\ gs.buffer_fcc > 0

(* C6: an advance of the playback clock by delta from play_time applies   *)
(* the head seek exactly when seek_when*1000 is in                        *)
(* [play_time, play_time + delta); then total_play_time becomes           *)
(* seek_when*1000, otherwise it grows by delta.                           *)
C6_SeekInHalfOpenInterval ==
    [][Advances =>
           /\ SeekApplied <=>
                 /\ gs.seek_events # << >>
                 /\ gs.total_play_time <= HeadSeekWhenMs
                 /\ HeadSeekWhenMs < gs.total_play_time + AdvanceDelta
           /\ SeekApplied => gs'.total_play_time = HeadSeekWhenMs
           /\ ~SeekApplied =>
                 gs'.total_play_time = gs.total_play_time + AdvanceDelta]_vars

(* C7: when the clock is advanced while total_play_time is at or past the *)
(* seek_when of pending seeks, that step consumes all of them, the ABR    *)
(* has been told the last one's seek_to, and next_segment is its target   *)
(* with an empty buffer and buffer_fcc = 0 when no buffered segment lies  *)
(* at or after it.                                                        *)
PastDue(g) ==
    { i \in 1 .. Len(g.seek_events) :
          g.seek_events[i].seek_when * 1000 <= g.total_play_time }
C7_PastDueSeeksConsumed ==
    [][(Advances /\ PastDue(gs) # {}) =>
           LET last == gs.seek_events[SetMax(PastDue(gs))]
               target == RoundHalfUp(last.seek_to * 1000)
           IN  /\ Len(gs'.seek_events) <= Len(gs.seek_events) - Cardinality(PastDue(gs))
               /\ gs'.abr_last_seek = last.seek_to * 1000
               /\ (\A i \in 1 .. Len(gs.buffer_contents) :
                       gs.buffer_contents[i][1] < target) =>
                     /\ gs'.next_segment = target
                     /\ gs'.buffer_contents = << >>
                     /\ gs'.buffer_fcc = 0]_vars

C9_RebufferSplitAtSeek ==
    [][(RebufferBlock /\ SeekApplied) =>
           /\ gs'.rebuffer_time =
                  gs.rebuffer_time + (HeadSeekWhenMs - gs.total_play_time)
           /\ gs'.total_play_time = HeadSeekWhenMs
           /\ ~dep'.ok
           /\ pc' = ReturnTo(dep.ret)]_vars

(* C10: at the end of a run total_play_time is startup_time plus          *)
(* segment_time for each segment consumed from the buffer plus            *)
(* rebuffer_time (no head is left partly consumed at the end).            *)
C10_PlaybackConservation ==
    pc = "done" =>
        gs.total_play_time =
            gs.startup_time + SegmentTime * gs.segments_consumed
                + gs.rebuffer_time + gs.buffer_fcc

-----------------------------------------------------------------------------
(* the sum of table[q] over the qualities q of a sequence of buffer entries *)
RECURSIVE SumOver(_, _)
SumOver(table, entries) ==
    IF entries = << >> THEN 0
    ELSE table[entries[1][2] + 1] + SumOver(table, Tail(entries))

(* C11: in every reachable state played_utility is the sum of             *)
(* utilities[q], and played_bitrate the sum of bitrates[q], over the      *)
(* buffer entries playback has played from, each counted exactly once.    *)
C11_PlayedAccounting ==
    /\ gs.played_bitrate = SumOver(Bitrates, gs.played)
    /\ gs.played_utility = SumOver(Utilities, gs.played)

(* the step calls deplete_buffer: the call is made in the state gs' with *)
(* the time dep'.time                                                     *)
CallsDeplete == pc # "deplete" /\ pc' = "deplete"

(* C12: a call deplete_buffer(L) with L the buffer level, that no seek    *)
(* interrupts, leaves the buffer empty with buffer_fcc = 0, advances      *)
(* total_play_time by L and adds no rebuffer time and no rebuffer event.  *)
C12_DepleteByLevel ==
    [][(CallsDeplete /\ dep'.time = get_buffer_level(gs')) =>
           LET r == deplete_buffer(gs', dep'.time)
           IN  r.ok =>
                 /\ r.g.buffer_contents = << >>
                 /\ r.g.buffer_fcc = 0
                 /\ r.g.total_play_time = gs'.total_play_time + dep'.time
                 /\ r.g.rebuffer_time = gs'.rebuffer_time
                 /\ r.g.rebuffer_event_count = gs'.rebuffer_event_count]_vars

(* a run without seeks whose downloads so far all took less than         *)
(* segment_time; the ABR has asked for no delay and abandoned no download *)
SeekFree == gs.seek_events = << >> /\ gs.abr_seek_reports = 0
FastDownloads == SeekFree /\ args.replace = "none" /\ ~gs.slow_download
NoAbrDelay == env.delays = MaxAbrDelays
NoAbandon == env.abandons = MaxAbandons

(* the number of entries of a sequence of buffer entries with index i *)
TimesPlayed(i) ==
    Cardinality({ k \in 1 .. Len(gs.played) : gs.played[k][1] = i })
NoRebufferAllPlayedOnce ==
    /\ gs.rebuffer_event_count = 0
    /\ gs.rebuffer_time = 0
    /\ pc = "done" => \A i \in 0 .. (NumSegments - 1) : TimesPlayed(i) = 1

-----------------------------------------------------------------------------
(* C14: for every manifest, trace, seek schedule and built-in ABR and     *)
(* replacement policy the session terminates: eventually every segment    *)
(* has been admitted (next_segment >= |segments|) and, after playout, the *)
(* buffer is empty with buffer_fcc = 0.                                   *)
PlayedOut == pc = "done" /\ gs.buffer_contents = << >> /\ gs.buffer_fcc = 0

C14_SessionTerminates ==
    /\ <>(gs.next_segment >= NumberOfSegments(gs))
    /\ <>PlayedOut

-----------------------------------------------------------------------------
(* C15: when the depletion that accounts for a download's wall time is    *)
(* interrupted by a seek, the download is discarded: the step that        *)
(* follows the return of deplete_buffer leaves the buffer (contents and   *)
(* buffer_fcc, as the seek left them), next_segment and                   *)
(* abandoned_to_quality alone, calls no report_download and pushes no     *)
(* throughput sample, and the loop restarts.                              *)
DownloadInterrupted == pc = "download_ret" /\ ~dep.ok

C15_InterruptedDownloadDiscarded ==
    [][DownloadInterrupted =>
          /\ gs'.buffer_contents = gs.buffer_contents
          /\ gs'.buffer_fcc = gs.buffer_fcc
          /\ gs'.next_segment = gs.next_segment
          /\ gs'.abandoned_to_quality = gs.abandoned_to_quality
          /\ gs'.abr_download_reports = gs.abr_download_reports
          /\ gs'.throughput_pushes = gs.throughput_pushes
          /\ pc' = "loop"]_vars

(* a completed download of the next segment, cut short by a seek that     *)
(* kept part of the buffer and left next_segment where it was             *)
C15_Witness ==
    /\ DownloadInterrupted
    /\ cur.replace = None
    /\ cur.dm.abandon_to_quality = None
    /\ gs.buffer_contents # << >>
    /\ gs.next_segment = cur.current_segment

-----------------------------------------------------------------------------
(* C16: after a non-replacement download is abandoned with                *)
(* abandon_to_quality = a, next_segment is not advanced and a is kept in  *)
(* abandoned_to_quality until the loop next chooses a download; that      *)
(* choice is segment next_segment at quality a with delay 0 and no        *)
(* replacement, whatever the ABR and the replacer would answer (the step  *)
(* has one outcome and uses none of the ABR's delays), and it clears      *)
(* abandoned_to_quality.                                                  *)
AbandonedAttempt ==
    /\ pc = "download_ret" /\ dep.ok
    /\ cur.replace = None /\ cur.dm.abandon_to_quality # None

ReusesAbandonedQuality == pc = "decide" /\ gs.abandoned_to_quality # None

C16_AbandonedQualityReused ==
    [][/\ AbandonedAttempt =>
             /\ gs'.abandoned_to_quality = cur.dm.abandon_to_quality
             /\ gs'.next_segment = gs.next_segment
             /\ gs'.buffer_contents = gs.buffer_contents
       /\ ReusesAbandonedQuality =>
             /\ cur' = [cur EXCEPT !.quality = gs.abandoned_to_quality,
                                    !.delay = 0, !.replace = None,
                                    !.current_segment = gs.next_segment,
                                    !.size = SegmentSize(gs.next_segment, gs.abandoned_to_quality),
                                    !.kind = IF args.no_abandon THEN "none" ELSE "abr"]
             /\ gs' = [gs EXCEPT !.abandoned_to_quality = None]
             /\ pc' = "download"
             /\ env' = env
       /\ gs'.abandoned_to_quality # gs.abandoned_to_quality =>
             AbandonedAttempt \/ ReusesAbandonedQuality]_vars

(* the loop is about to choose a download after an attempt was abandoned, *)
(* with an ABR that, if asked, could answer another quality and a delay   *)
C16_Witness ==
    /\ ReusesAbandonedQuality
    /\ env.delays > 0
    /\ \E a \in AbrAnswers : a[1] # gs.abandoned_to_quality /\ a[2] > 0

-----------------------------------------------------------------------------
(* C17: at the start of every iteration of the download loop, and when    *)
(* the loop exits, the two virtual clocks agree:                          *)
(* network_total_time = total_play_time.                                  *)
AtLoopTop == pc = "loop"

C17_ClocksAgree == AtLoopTop => gs.network_total_time = gs.total_play_time

-----------------------------------------------------------------------------
-----------------------------------------------------------------------------
(* C19: every seek applied during buffer depletion has                    *)
(* abr.report_seek(seek_to in ms) called before the next call of          *)
(* abr.get_quality_delay: the step of deplete_buffer that applies the     *)
(* seek makes the report, with the seek's target in ms, no other step     *)
(* touches what the ABR was told, and the step that asks the ABR for a    *)
(* quality applies no seek.                                               *)
AsksAbr == pc = "decide" /\ gs.abandoned_to_quality = None

C19_SeekReportedBeforeDecision ==
    [][/\ SeekApplied =>
             /\ pc = "deplete"
             /\ gs'.abr_seek_reports = gs.abr_seek_reports + 1
             /\ gs'.abr_last_seek = HeadSeekToMs
       /\ ~SeekApplied =>
             /\ gs'.abr_seek_reports = gs.abr_seek_reports
             /\ gs'.abr_last_seek = gs.abr_last_seek
       /\ AsksAbr => ~SeekApplied]_vars

(* the ABR is asked for a quality after a seek that changed next_segment *)
C19_Witness ==
    /\ AsksAbr /\ ~Raises
    /\ gs.abr_seek_reports > 0
    /\ gs.abr_last_seek = NewSegment(gs.abr_last_seek) * SegmentTime + gs.buffer_fcc
    /\ gs.buffer_contents = << >>

-----------------------------------------------------------------------------
(* The bookkeeping of reaction times: gs.pending_quality_up holds the     *)
(* entries [advertised_at, quality] and, once the switch was reached or   *)
(* withdrawn, [advertised_at, quality, done_at].  The session of Spec has *)
(* two qualities, for which the list never holds two entries, so the two  *)
(* functions are run here on their own, called as the network model and   *)
(* deplete_buffer call them, over three quality levels.                   *)
MaxQualityTicks == 4
QualityLevels == {0, 1, 2}
QualityClockCap == MaxQualityTicks * SegmentTime

QualityInit ==
    /\ gs = [pending_quality_up |-> << >>, total_reaction_time |-> 0,
             network_total_time |-> 0, total_play_time |-> 0,
             buffer_contents |-> << >>, buffer_fcc |-> 0,
             sustainable_quality |-> 0,
             max_buffer_size |-> MaxBufferSec * 1000]
    /\ network = InitialNetwork(<<Period(SegmentTime, 12, 0)>>)
    /\ args = [no_abandon |-> FALSE, replace |-> "none", abr |-> "bolae",
               classes |-> "sabre.py"]
    /\ pc = "quality"
    /\ dep = IdleFrame
    /\ cur = NoLocals
    /\ env = [delays |-> 0, abandons |-> 0]

(* NetworkModel: time passes on the network clock (sabre.py 601, 621, 640) *)
NetworkElapses ==
    /\ pc = "quality"
    /\ gs.network_total_time < QualityClockCap
    /\ gs' = [gs EXCEPT !.network_total_time = @ + SegmentTime]
    /\ UNCHANGED <<network, args, pc, dep, cur, env>>

\* the bitrates of the three quality levels, and the periods a trace may
\* turn to: bandwidth 2, 6, 12 and 24 with no latency or with a latency of
\* half a segment
QualityBitrates == <<3, 6, 12>>
QualityPeriods ==
    { Period(SegmentTime, 2, 0), Period(SegmentTime, 6, 0), Period(SegmentTime, 12, 0),
      Period(SegmentTime, 12, SegmentTime \div 2), Period(SegmentTime, 24, SegmentTime \div 2) }

(* next_network_period: bitrates[i] > effective_bandwidth, with           *)
(* effective_bandwidth = bandwidth * (1 - latency / segment_time)         *)
AboveEffectiveBandwidth(period, i) ==
    QualityBitrates[i + 1] * SegmentTime > period.bandwidth * (SegmentTime - period.latency)

(* next_network_period: the loop that sets gs.sustainable_quality         *)
RECURSIVE SustainableFrom(_, _, _)
SustainableFrom(period, i, sustainable_quality) ==
    IF i >= Len(QualityBitrates) \/ AboveEffectiveBandwidth(period, i)
    THEN sustainable_quality
    ELSE SustainableFrom(period, i + 1, i)

(* next_network_period, from the effective bandwidth on (sabre.py 560-578) *)
next_sustainable_quality(g, period) ==
    LET previous_sustainable_quality == g.sustainable_quality
        sustainable_quality == SustainableFrom(period, 1, 0)
    IN  IF sustainable_quality # previous_sustainable_quality
        THEN [advertize_new_network_quality(g, sustainable_quality,
                                            previous_sustainable_quality)
                  EXCEPT !.sustainable_quality = sustainable_quality]
        ELSE g

(* next_network_period: the trace turns to its next period                *)
NetworkPeriodChanges ==
    /\ pc = "quality"
    /\ \E period \in QualityPeriods :
         /\ SustainableFrom(period, 1, 0) # gs.sustainable_quality
         /\ gs' = next_sustainable_quality(gs, period)
    /\ UNCHANGED <<network, args, pc, dep, cur, env>>

(* process_download_loop: a downloaded segment enters the buffer          *)
(* (sabre.py 491-494)                                                     *)
SegmentDownloaded ==
    /\ pc = "quality"
    /\ get_buffer_level(gs) + SegmentTime <= gs.max_buffer_size
    /\ \E q \in QualityLevels :
         gs' = [gs EXCEPT !.buffer_contents = Append(@, <<0, q>>)]
    /\ UNCHANGED <<network, args, pc, dep, cur, env>>

(* deplete_buffer(segment_time) with a buffered segment to play and no    *)
(* seek (sabre.py 210-231, 248)                                           *)
SegmentPlayed ==
    /\ pc = "quality"
    /\ gs.buffer_contents # << >>
    /\ gs.total_play_time < QualityClockCap
    /\ LET quality == gs.buffer_contents[1][2]
           now == gs.total_play_time
           g1 == [gs EXCEPT !.pending_quality_up = MarkReached(@, quality, now),
                            !.buffer_contents = Tail(@),
                            !.total_play_time = @ + SegmentTime]
       IN  gs' = process_quality_up(g1, g1.total_play_time)
    /\ UNCHANGED <<network, args, pc, dep, cur, env>>

(* deplete_buffer(segment_time) on an empty buffer and no seek            *)
(* (sabre.py 188-194, 248)                                                *)
PlaybackStalls ==
    /\ pc = "quality"
    /\ gs.buffer_contents = << >>
    /\ gs.total_play_time < QualityClockCap
    /\ LET g1 == [gs EXCEPT !.total_play_time = @ + SegmentTime]
       IN  gs' = process_quality_up(g1, g1.total_play_time)
    /\ UNCHANGED <<network, args, pc, dep, cur, env>>

QualityNext ==
    \/ NetworkElapses
    \/ NetworkPeriodChanges
    \/ SegmentDownloaded
    \/ SegmentPlayed
    \/ PlaybackStalls

SpecQuality == QualityInit /\ [][QualityNext]_vars

-----------------------------------------------------------------------------
(* C20: pending-quality-up entries are retired strictly in FIFO order.    *)
(* In every step the list loses some k of its entries from the head, only *)
(* entries whose advertised_at is older than now - max_buffer_size (now   *)
(* being the clock the call was given), and gains at most one entry, at   *)
(* the tail; the list is in the order of advertised_at, so no entry       *)
(* leaves before one that was advertised earlier.                         *)
Advertisement(p) == <<p[1], p[2]>>
Advertisements(list) == [i \in 1 .. Len(list) |-> Advertisement(list[i])]
InAdvertisedOrder(list) ==
    \A i \in 1 .. (Len(list) - 1) : list[i][1] <= list[i + 1][1]
RetiringClock ==
    IF gs'.total_play_time # gs.total_play_time
    THEN gs'.total_play_time ELSE gs.network_total_time
RetiresFromHead(k) ==
    LET old == Advertisements(gs.pending_quality_up)
        new == Advertisements(gs'.pending_quality_up)
        kept == SubSeq(old, k + 1, Len(old))
    IN  /\ \A i \in 1 .. k :
              gs.pending_quality_up[i][1] < RetiringClock - gs.max_buffer_size
        /\ \/ new = kept
           \/ /\ Len(new) = Len(kept) + 1
              /\ SubSeq(new, 1, Len(kept)) = kept

C20_QualityUpFifo ==
    [][/\ \E k \in 0 .. Len(gs.pending_quality_up) : RetiresFromHead(k)
       /\ InAdvertisedOrder(gs.pending_quality_up)
       /\ InAdvertisedOrder(gs'.pending_quality_up)]_vars

(* an entry has been retired and two switches are pending together, the   *)
(* earlier one old enough for the next call on the network clock to       *)
(* retire it before the later one                                         *)
C20_Witness ==
    /\ pc = "quality"
    /\ gs.total_reaction_time > 0
    /\ Len(gs.pending_quality_up) = 2
    /\ gs.pending_quality_up[1][1] < gs.pending_quality_up[2][1]
    /\ gs.pending_quality_up[1][1] < gs.network_total_time - gs.max_buffer_size

-----------------------------------------------------------------------------
(* C21: for the left and right replacement policies check_replace(quality) *)
(* returns null or a negative index r with skip - |buffer| <= r <= -1,     *)
(* skip = ceil(1.5 + buffer_fcc/segment_time), of an entry whose quality   *)
(* is strictly less than quality: for left the entry nearest the head      *)
(* among those at positions >= skip, for right the one nearest the tail,   *)
(* and null exactly when there is no such entry.                           *)
CallsCheckReplace ==
    /\ pc = "decide" /\ gs.abandoned_to_quality = None
    /\ args.replace \in {"left", "right"}

(* the positions (from the head, 0 first) at or past 1.5 + buffer_fcc/segment_time *)
(* whose entry has a quality below the one asked for                       *)
Replaceable(g, quality) ==
    { i \in 0 .. (Len(g.buffer_contents) - 1) :
        /\ 2 * i * SegmentTime >= 3 * SegmentTime + 2 * g.buffer_fcc
        /\ g.buffer_contents[i + 1][2] < quality }

CheckReplaceContract(g, strategy, quality, r) ==
    LET n == Len(g.buffer_contents)
        candidates == Replaceable(g, quality)
    IN  /\ r = None <=> candidates = {}
        /\ r # None =>
              /\ r <= -1
              /\ r + n \in candidates
              /\ strategy = "left" => \A c \in candidates : r + n <= c
              /\ strategy = "right" => \A c \in candidates : r + n >= c

C21_CheckReplaceContract ==
    [][CallsCheckReplace =>
          /\ pc' # "raised"
          /\ CheckReplaceContract(gs, args.replace, cur'.quality, cur'.replace)]_vars

-----------------------------------------------------------------------------
(* C22: when a replacement download completes (not abandoned, not         *)
(* interrupted by a seek), the buffer length, every entry's segment index *)
(* and next_segment are unchanged and at most the targeted slot's quality *)
(* changes, to the strictly higher downloaded quality; the slot is        *)
(* overwritten only if it is still in the buffer and has not started      *)
(* playing, otherwise the buffer is left unchanged.  The sentinel -1 the  *)
(* replacer's check_abandon returns is never stored as                    *)
(* abandoned_to_quality.                                                  *)
ReplacementReturns == pc = "download_ret" /\ dep.ok /\ cur.replace # None
ReplacementCompletes == ReplacementReturns /\ cur.dm.abandon_to_quality = None
ReplacementAbandoned == ReplacementReturns /\ cur.dm.abandon_to_quality # None

(* the targeted slot, counted from the head (1 first), after depletion *)
TargetSlot == Len(gs.buffer_contents) + cur.replace + 1
InBufferNotStarted == TargetSlot >= 1 /\ (TargetSlot = 1 => gs.buffer_fcc = 0)

C22_ReplacementFrame ==
    [][/\ ReplacementCompletes =>
             /\ Len(gs'.buffer_contents) = Len(gs.buffer_contents)
             /\ \A i \in 1 .. Len(gs.buffer_contents) :
                    /\ gs'.buffer_contents[i][1] = gs.buffer_contents[i][1]
                    /\ i # TargetSlot => gs'.buffer_contents[i] = gs.buffer_contents[i]
             /\ gs'.next_segment = gs.next_segment
             /\ gs'.abandoned_to_quality = None
             /\ IF InBufferNotStarted
                THEN /\ gs'.buffer_contents[TargetSlot][2] = cur.quality
                     /\ cur.quality > gs.buffer_contents[TargetSlot][2]
                ELSE gs'.buffer_contents = gs.buffer_contents
       /\ ReplacementAbandoned =>
             /\ cur.dm.abandon_to_quality = -1
             /\ gs'.buffer_contents = gs.buffer_contents
             /\ gs'.next_segment = gs.next_segment
             /\ gs'.abandoned_to_quality = None]_vars

(* a replacement download has completed with its slot still waiting in    *)
(* the buffer, after playback consumed entries during the download        *)
C22_Witness ==
    /\ ReplacementCompletes
    /\ InBufferNotStarted
    /\ TargetSlot < 3

-----------------------------------------------------------------------------
(* NetworkModel on its own: one period of constant bandwidth and latency, *)
(* download called without a callback, delay called in between so that    *)
(* the cursor stands anywhere in the period.                              *)

MaxDownloadCalls == 2
DownloadPeriodTimes == {3, 5}
DownloadBandwidths == {1, 2, 4}
DownloadLatencies == {0, 1, 4, 7}
\* sizes are whole multiples of the bandwidth, up to several periods' worth
DownloadUnits == 1 .. 12
NetworkDelays == {1, 2, 6}

DownloadInit ==
    /\ gs = InitialState(<< >>, BufferSize, NumSegments)
    /\ \E t \in DownloadPeriodTimes, b \in DownloadBandwidths, l \in DownloadLatencies :
           network = InitialNetwork(<< Period(t, b, l) >>)
    /\ args = [no_abandon |-> TRUE, replace |-> "none", abr |-> "bolae",
               classes |-> "sabre.py"]
    /\ pc = "network"
    /\ dep = IdleFrame
    /\ cur = NoLocals
    /\ env = [delays |-> 0, abandons |-> 0]

(* NetworkModel.download(size, idx, quality, buffer_level, None);          *)
(* cur.current_segment is idx                                              *)
NetworkDownload ==
    /\ pc = "network"
    /\ cur.current_segment < MaxDownloadCalls
    /\ \E u \in DownloadUnits :
         LET size == u * CurrentPeriod(W).bandwidth
             r == download(W, size, 0, NoCallback)
         IN  /\ gs' = r.w.g
             /\ network' = r.w.n
             /\ cur' = [cur EXCEPT !.size = size, !.dm = r.dp, !.kind = "download",
                                   !.current_segment = @ + 1]
    /\ UNCHANGED <<args, pc, dep, env>>

(* NetworkModel.delay(time) *)
NetworkDelay ==
    /\ pc = "network"
    /\ cur.kind # "delay"
    /\ cur.current_segment < MaxDownloadCalls
    /\ \E time \in NetworkDelays :
         LET w == delay(W, time)
         IN  /\ gs' = w.g
             /\ network' = w.n
    /\ cur' = [cur EXCEPT !.kind = "delay"]
    /\ UNCHANGED <<args, pc, dep, env>>

DownloadNext == NetworkDownload \/ NetworkDelay

SpecDownload == DownloadInit /\ [][DownloadNext]_vars

DownloadReturns == cur'.current_segment = cur.current_segment + 1

\* C23: over one period of constant bandwidth b > 0 and latency l, download
\* of s > 0 bits without a callback returns downloaded = s, no abandonment,
\* time_to_first_bit = l and time = s/b + l, wherever the cursor stood and
\* however often the transfer crossed the period boundary.
C23_ConstantTraceDownload ==
    [][DownloadReturns =>
          cur'.dm = DownloadProgress(cur'.size, cur'.size,
                                     Div(cur'.size, CurrentPeriod(W).bandwidth)
                                         + CurrentPeriod(W).latency,
                                     CurrentPeriod(W).latency, None)]_vars

\* a download that crossed the boundary at least twice, after a latency
\* longer than the period
C23_Witness ==
    /\ pc = "network"
    /\ cur.kind = "download"
    /\ cur.dm.time_to_first_bit > CurrentPeriod(W).time
    /\ cur.dm.time - cur.dm.time_to_first_bit > 2 * CurrentPeriod(W).time

-----------------------------------------------------------------------------
(* buffer.py: MultiRegionBuffer beside the linear buffer of sabre.py, for *)
(* a sequential workload.  regions is region_map in the order of          *)
(* region_starts: a sequence of [start, end, chunks].                     *)

NumBufferSegments == 4
PlayDeltas == {1000, 2000}

(* BufferRegion.add_chunk *)
RegionAddChunk(region, quality) ==
    [region EXCEPT !.end = @ + SegmentTime, !.chunks = Append(@, quality)]

(* BufferRegion.exists *)
RegionExists(region, pos) == pos >= region.start /\ pos < region.end

(* BufferRegion.try_merge, the case self.start < region.start: the chunks *)
(* region.pop_chunk(self.end) leaves are appended                         *)
try_merge(self, region) ==
    IF self.end < region.start \/ self.start > region.end THEN self
    ELSE LET n_chunk_to_pop == self.end \div SegmentTime
             kept == IF n_chunk_to_pop >= Len(region.chunks) THEN << >>
                     ELSE SubSeq(region.chunks, n_chunk_to_pop + 1, Len(region.chunks))
         IN  [self EXCEPT !.end = region.end, !.chunks = @ \o kept]

(* MultiRegionBuffer._find_region_of: the index of the region, 0 for None *)
FindRegionOf(regions, pos) ==
    LET n == Len(regions)
        below == { i \in 1 .. n : regions[i].start <= pos }
        ending == { i \in 1 .. n : regions[i].end = pos }
    IN  IF below # {} /\ RegionExists(regions[SetMax(below)], pos) THEN SetMax(below)
        ELSE IF \E i \in 1 .. n : regions[i].start = pos
        THEN SetMin({ i \in 1 .. n : regions[i].start = pos })
        ELSE IF ending # {}
        THEN LET i == SetMin(ending)
             IN  IF i < n /\ regions[i + 1].start = regions[i].end THEN i + 1 ELSE i
        ELSE 0

(* MultiRegionBuffer.buffer_by_pos *)
buffer_by_pos(regions, pos, quality) ==
    LET r == FindRegionOf(regions, pos)
        n == Len(regions)
    IN  IF r # 0
        THEN LET grown == RegionAddChunk(regions[r], quality)
             IN  [regions EXCEPT ![r] = IF r < n THEN try_merge(grown, regions[r + 1])
                                        ELSE grown]
        ELSE LET start == (pos \div SegmentTime) * SegmentTime
                 region == [start |-> start, end |-> start + SegmentTime,
                            chunks |-> << quality >>]
                 before == SelectSeq(regions, LAMBDA x : x.start <= start)
                 after == SelectSeq(regions, LAMBDA x : x.start > start)
             IN  before \o << region >> \o after

(* MultiRegionBuffer.merge_adjacent_regions *)
RECURSIVE merge_adjacent_regions(_)
merge_adjacent_regions(regions) ==
    IF Len(regions) < 2 THEN regions
    ELSE IF regions[1].end = regions[2].start
    THEN << try_merge(regions[1], regions[2]) >>
             \o merge_adjacent_regions(SubSeq(regions, 3, Len(regions)))
    ELSE << regions[1] >> \o merge_adjacent_regions(Tail(regions))

(* MultiRegionBuffer.add_chunk *)
add_chunk(regions, segment_index, quality) ==
    merge_adjacent_regions(buffer_by_pos(regions, segment_index * SegmentTime, quality))

(* MultiRegionBuffer.get_contiguous_chunks_from_current_position *)
RECURSIVE ContiguousFrom(_, _)
ContiguousFrom(regions, i) ==
    IF i < Len(regions) /\ regions[i].end = regions[i + 1].start
    THEN regions[i].chunks \o ContiguousFrom(regions, i + 1)
    ELSE regions[i].chunks

get_contiguous_chunks_from_current_position(regions, current_playback_pos) ==
    LET r == FindRegionOf(regions, current_playback_pos)
    IN  IF r = 0 THEN << >> ELSE ContiguousFrom(regions, r)

(* MultiRegionBuffer.get_buffer_level(buffer_fcc) *)
region_buffer_level(regions, current_playback_pos, buffer_fcc) ==
    Max(0, SegmentTime
             * Len(get_contiguous_chunks_from_current_position(regions, current_playback_pos))
           - buffer_fcc)

(* MultiRegionBuffer.pop_chunk *)
pop_chunk(regions, current_playback_pos) ==
    LET r == FindRegionOf(regions, current_playback_pos)
    IN  IF r = 0 THEN regions
        ELSE LET region == regions[r]
                 rest == SubSeq(regions, 1, r - 1) \o SubSeq(regions, r + 1, Len(regions))
                 moved == [start |-> region.start + SegmentTime, end |-> region.end,
                           chunks |-> Tail(region.chunks)]
             IN  IF Len(region.chunks) = 1 THEN rest
                 ELSE SelectSeq(rest, LAMBDA x : x.start <= moved.start)
                          \o << moved >>
                          \o SelectSeq(rest, LAMBDA x : x.start > moved.start)

(* GlobalState.__init__ defines no current_playback_pos: reading it raises *)
(* AttributeError ("absent").  "head" is a caller that keeps the          *)
(* attribute at the play head.                                            *)
PlaybackPositions == {"absent", "head"}

PlaybackPosition(g) ==
    IF g.buffer_contents = << >> THEN g.next_segment * SegmentTime
    ELSE g.buffer_contents[1][1] * SegmentTime + g.buffer_fcc

BufferInit ==
    /\ gs = [buffer_contents |-> << >>, buffer_fcc |-> 0, next_segment |-> 0,
             regions |-> << >>, level |-> None]
    /\ network = InitialNetwork(<< Period(SegmentTime, 12, 0) >>)
    /\ \E p \in PlaybackPositions :
           args = [no_abandon |-> TRUE, replace |-> "none", abr |-> "bolae",
                   classes |-> "sabre.py", current_playback_pos |-> p]
    /\ pc = "buffer"
    /\ dep = IdleFrame
    /\ cur = NoLocals
    /\ env = [delays |-> 0, abandons |-> 0]

(* a segment is downloaded: buffer_contents.append and add_chunk *)
BufferAddChunk ==
    /\ pc = "buffer"
    /\ gs.next_segment < NumBufferSegments
    /\ \E quality \in Qualities :
           gs' = [gs EXCEPT
                     !.buffer_contents = Append(@, << gs.next_segment, quality >>),
                     !.next_segment = @ + 1,
                     !.regions = add_chunk(@, gs.next_segment, quality),
                     !.level = None]
    /\ cur' = [cur EXCEPT !.kind = "add_chunk"]
    /\ UNCHANGED <<network, args, pc, dep, env>>

(* playback inside the head chunk *)
BufferPlay ==
    /\ pc = "buffer"
    /\ gs.buffer_contents # << >>
    /\ \E delta \in PlayDeltas :
         /\ gs.buffer_fcc + delta < SegmentTime
         /\ gs' = [gs EXCEPT !.buffer_fcc = @ + delta, !.level = None]
    /\ cur' = [cur EXCEPT !.kind = "play"]
    /\ UNCHANGED <<network, args, pc, dep, env>>

(* the head chunk is played out: buffer_contents.pop(0) and pop_chunk;    *)
(* the play head is still in the chunk or already at its end              *)
BufferPopChunk ==
    /\ pc = "buffer"
    /\ gs.buffer_contents # << >>
    /\ IF args.current_playback_pos = "absent"
       THEN /\ pc' = "raised"
            /\ UNCHANGED gs
       ELSE /\ \E pos \in {PlaybackPosition(gs), (gs.buffer_contents[1][1] + 1) * SegmentTime} :
                   gs' = [gs EXCEPT !.buffer_contents = Tail(@),
                                    !.buffer_fcc = 0,
                                    !.regions = pop_chunk(@, pos),
                                    !.level = None]
            /\ UNCHANGED pc
    /\ cur' = [cur EXCEPT !.kind = "pop_chunk"]
    /\ UNCHANGED <<network, args, dep, env>>

(* get_buffer_level(gs.buffer_fcc) *)
BufferGetLevel ==
    /\ pc = "buffer"
    /\ gs.level = None
    /\ IF args.current_playback_pos = "absent"
       THEN /\ pc' = "raised"
            /\ UNCHANGED gs
       ELSE /\ gs' = [gs EXCEPT !.level =
                         region_buffer_level(gs.regions, PlaybackPosition(gs), gs.buffer_fcc)]
            /\ UNCHANGED pc
    /\ cur' = [cur EXCEPT !.kind = "get_buffer_level"]
    /\ UNCHANGED <<network, args, dep, env>>

BufferNext == BufferAddChunk \/ BufferPlay \/ BufferPopChunk \/ BufferGetLevel

SpecBuffer == BufferInit /\ [][BufferNext]_vars

CallsGetBufferLevel ==
    /\ pc = "buffer"
    /\ gs.level = None
    /\ cur'.kind = "get_buffer_level"

\* C24: in a sequential workload, after every operation
\* MultiRegionBuffer.get_buffer_level(buffer_fcc) returns the linear
\* buffer's level, segment_time * |buffer_contents| - buffer_fcc.
C24_MultiRegionLevelIsLinear ==
    [][CallsGetBufferLevel =>
          /\ pc' # "raised"
          /\ gs'.level = SegmentTime * Len(gs.buffer_contents) - gs.buffer_fcc]_vars

-----------------------------------------------------------------------------
(* NetworkModel.download with an abandonment callback, on its own: the    *)
(* default thresholds, traces with a period of no bandwidth and with a    *)
(* latency longer than the period, and a callback that answers at its     *)
(* first, second or third invocation, or never.                           *)

\* one positive bandwidth and one positive latency per trace keep every
\* quotient of the code integral
CheckpointTraces ==
    { << Period(3000, 12, 100) >>,
      << Period(1000, 24, 2000) >>,
      << Period(1500, 12, 0), Period(500, 0, 1000), Period(2000, 12, 1000) >> }
CheckpointSizes == {6000, 12000, 18000, 36000, 48000}
CheckpointBufferLevels == {0, 2000, 8000}
CheckpointDelays == {500, 1500}
CallbackAnswers == 0 .. 3

(* what download returned and what its callback was given *)
DownloadResult(r) == [dp |-> r.dp, checks |-> r.checks, calls |-> r.calls]

CheckpointInit ==
    /\ gs = InitialState(<< >>, BufferSize, NumSegments)
    /\ \E trace \in CheckpointTraces : network = InitialNetwork(trace)
    /\ args = [no_abandon |-> FALSE, replace |-> "none", abr |-> "bolae",
               classes |-> "sabre.py"]
    /\ pc = "network"
    /\ dep = IdleFrame
    /\ cur = [idx |-> 0, size |-> 0, buffer_level |-> 0, check_abandon |-> NoCallback,
              kind |-> "none", result |-> DownloadResult(download(W, 0, 0, NoCallback))]
    /\ env = [delays |-> 0, abandons |-> 0]

(* NetworkModel.download(size, idx, quality, buffer_level, check_abandon) *)
AbandonableDownload ==
    /\ pc = "network"
    /\ cur.idx < MaxDownloadCalls
    /\ \E size \in CheckpointSizes, buffer_level \in CheckpointBufferLevels, at \in CallbackAnswers :
         LET ca == [kind |-> "abr", at |-> at, to |-> IF at = 0 THEN None ELSE 0,
                    replacing |-> None]
             r == download(W, size, buffer_level, ca)
         IN  /\ gs' = r.w.g
             /\ network' = r.w.n
             /\ cur' = [idx |-> cur.idx + 1, size |-> size, buffer_level |-> buffer_level,
                        check_abandon |-> ca, kind |-> "download", result |-> DownloadResult(r)]
    /\ UNCHANGED <<args, pc, dep, env>>

(* NetworkModel.delay(time) between two downloads *)
CheckpointDelay ==
    /\ pc = "network"
    /\ cur.kind # "delay"
    /\ cur.idx < MaxDownloadCalls
    /\ \E time \in CheckpointDelays :
         LET w == delay(W, time)
         IN  /\ gs' = w.g
             /\ network' = w.n
    /\ cur' = [cur EXCEPT !.kind = "delay"]
    /\ UNCHANGED <<args, pc, dep, env>>

CheckpointNext == AbandonableDownload \/ CheckpointDelay

SpecCheckpoint == CheckpointInit /\ [][CheckpointNext]_vars

AbandonableDownloadReturns == cur'.idx = cur.idx + 1

\* C25: every invocation of the abandonment callback during download comes
\* after one full latency delay (time_to_first_bit is that latency and
\* time >= it), sees 0 < downloaded < size and is given
\* max(0, buffer_level - time); it is not invoked once downloaded = size.
C25_CallbackAfterLatency ==
    [][AbandonableDownloadReturns =>
          LET r == cur'.result
              latency == do_latency_delay(W, 1).total_delay
          IN  /\ r.checks = Len(r.calls)
              /\ r.dp.downloaded = cur'.size => r.dp.abandon_to_quality = None
              /\ \A i \in 1 .. Len(r.calls) :
                   LET progress == r.calls[i].progress
                   IN  /\ progress.time_to_first_bit = latency
                       /\ progress.time >= latency
                       /\ progress.size = cur'.size
                       /\ 0 < progress.downloaded
                       /\ progress.downloaded < cur'.size
                       /\ r.calls[i].buffer_level
                              = Max(0, cur'.buffer_level - progress.time)]_vars

\* a download whose callback was invoked three times, after a latency that
\* crossed a period boundary
C25_Witness ==
    /\ cur.kind = "download"
    /\ Len(cur.result.calls) = 3
    /\ cur.result.dp.time_to_first_bit > network.trace[1].time

-----------------------------------------------------------------------------
(* C26: a period change that raises the sustainable quality and the       *)
(* pending-quality-up list.                                               *)

(* the highest i with bitrates[i] <= bandwidth * (1 - latency/segment_time), *)
(* 0 when there is none                                                   *)
HighestSustainable(period) ==
    SetMax({0} \cup { i \in 1 .. (Len(QualityBitrates) - 1) :
                        QualityBitrates[i + 1] * SegmentTime
                            <= period.bandwidth * (SegmentTime - period.latency) })

(* the entries the call leaves in the list: all but the leading ones      *)
(* advertised more than max_buffer_size before the network clock          *)
KeptPending(g) ==
    LET old == Advertisements(g.pending_quality_up)
        k == SetMax({ j \in 0 .. Len(old) :
                        \A i \in 1 .. j : old[i][1] < g.network_total_time - g.max_buffer_size })
    IN  SubSeq(old, k + 1, Len(old))

(* a buffered segment or an entry left in the list is already at the      *)
(* quality or above it                                                    *)
AlreadyThere(g, quality) ==
    \/ \E i \in 1 .. Len(g.buffer_contents) : g.buffer_contents[i][2] >= quality
    \/ \E i \in 1 .. Len(KeptPending(g)) : KeptPending(g)[i][2] >= quality

Rises(period) == HighestSustainable(period) > gs.sustainable_quality

\* C26 as stated: on every period change whose sustainable quality is
\* higher than the previous period's, the entry
\* [network_total_time, sustainable quality] is appended to the list.
C26_RiseAppendsEntry ==
    pc = "quality" =>
        \A period \in QualityPeriods :
            Rises(period) =>
                LET after == next_sustainable_quality(gs, period)
                IN  /\ after.sustainable_quality = HighestSustainable(period)
                    /\ Advertisements(after.pending_quality_up)
                           = Append(KeptPending(gs),
                                    <<gs.network_total_time, HighestSustainable(period)>>)

\* C26: on every period change whose sustainable quality is higher than the
\* previous period's, the entry [network_total_time, sustainable quality]
\* is appended to the list unless a buffered segment or an entry still in
\* the list has that quality or a higher one; then nothing is appended.
C26_RiseAppendsEntryUnlessThere ==
    pc = "quality" =>
        \A period \in QualityPeriods :
            Rises(period) =>
                LET after == next_sustainable_quality(gs, period)
                    quality == HighestSustainable(period)
                IN  /\ after.sustainable_quality = quality
                    /\ Advertisements(after.pending_quality_up)
                           = IF AlreadyThere(gs, quality) THEN KeptPending(gs)
                             ELSE Append(KeptPending(gs), <<gs.network_total_time, quality>>)

\* the rise to quality 2 has just been appended behind an earlier entry,
\* with a segment of lower quality in the buffer
C26_Witness ==
    /\ pc = "quality"
    /\ gs.sustainable_quality = 2
    /\ Len(gs.pending_quality_up) = 2
    /\ gs.pending_quality_up[2] = <<gs.network_total_time, 2>>
    /\ gs.buffer_contents # << >>

-----------------------------------------------------------------------------
(* C27: the full-buffer delay keeps the buffer within max_buffer.         *)

DownloadIssued == pc = "download"

-----------------------------------------------------------------------------
(* BolaEnh on its own: the object's attributes are in cur, the session    *)
(* around it (buffer, throughput estimate) moves freely within what a     *)
(* session allows.  Three bitrates, segments of 4 s, --max-buffer 25.     *)

MaxAbrCalls == 3
BolaeBitrates == <<3, 6, 12>>
BolaeQualities == 0 .. (Len(BolaeBitrates) - 1)
BolaeBufferSize == 25000

\* Vp * (utilities[q] + gp), rounded to a millisecond, for the two ways
\* __init__ sets Vp and gp: with the insufficient buffer rule
\* (buffer = 25000, minimum_buffer = 10000) and with no_ibr (gp = 5)
BolaeLevels(no_ibr) ==
    IF no_ibr THEN <<16443, 18721, 21000>> ELSE <<20820, 28320, 35820>>

\* ibr_safety is kept in millionths
SafetyUnit == 1000000
low_buffer_safety_factor == 500000
low_buffer_safety_factor_init == 900000
minimum_buffer == 10000

(* BolaEnh.max_buffer_for_quality *)
max_buffer_for_quality(a, quality) == BolaeLevels(a.no_ibr)[quality + 1]

(* BolaEnh.min_buffer_for_quality: Vp * (gp + (bitrate * u - b * utility) *)
(* / (bitrate - b)) is (bitrate * level(q) - b * level(quality)) /         *)
(* (bitrate - b)                                                           *)
min_buffer_for_quality(a, quality) ==
    LET bitrate == BolaeBitrates[quality + 1]
    IN  SetMax({0} \cup
               { Div(bitrate * max_buffer_for_quality(a, q)
                         - BolaeBitrates[q + 1] * max_buffer_for_quality(a, quality),
                     bitrate - BolaeBitrates[q + 1]) : q \in 0 .. (quality - 1) })

(* Abr.quality_from_throughput: gs.latency + p * bitrates[quality + 1] /  *)
(* tput <= p                                                               *)
RECURSIVE ThroughputLoop(_, _)
ThroughputLoop(g, quality) ==
    IF /\ quality + 1 < Len(BolaeBitrates)
       /\ g.latency * g.throughput + SegmentTime * BolaeBitrates[quality + 2]
              <= SegmentTime * g.throughput
    THEN ThroughputLoop(g, quality + 1)
    ELSE quality

quality_from_throughput(g) == ThroughputLoop(g, 0)

(* BolaEnh.quality_from_buffer: the first quality of the highest score    *)
(* (Vp * (utilities[q] + gp) - level) / bitrates[q]                        *)
RECURSIVE BufferLoop(_, _, _, _)
BufferLoop(a, level, q, quality) ==
    IF q >= Len(BolaeBitrates) THEN quality
    ELSE IF (max_buffer_for_quality(a, q) - level) * BolaeBitrates[quality + 1]
                > (max_buffer_for_quality(a, quality) - level) * BolaeBitrates[q + 1]
    THEN BufferLoop(a, level, q + 1, q)
    ELSE BufferLoop(a, level, q + 1, quality)

quality_from_buffer(a, level) == BufferLoop(a, level, 1, 0)

(* Bola.get_quality_delay: the oscillation control                         *)
BolaOscillation(a, quality, last_quality, quality_t) ==
    IF quality <= last_quality THEN quality
    ELSE IF quality <= quality_t THEN quality
    ELSE IF last_quality > quality_t THEN last_quality
    ELSE IF ~a.abr_osc THEN quality_t + 1
    ELSE quality_t

(* BolaEnh.get_quality_delay: the oscillation step of STEADY               *)
BolaeOscillation(a, quality, last_quality, quality_t) ==
    IF quality > last_quality /\ quality > quality_t
    THEN Max(last_quality, quality_t) + (IF ~a.abr_osc THEN 1 ELSE 0)
    ELSE quality

(* variant: the delay is forwarded whole, the placeholder absorbs nothing *)
AbsorbDelayForwardsAll(placeholder, excess) ==
    IF excess > 0 THEN [placeholder |-> placeholder, delay |-> excess]
    ELSE [placeholder |-> placeholder, delay |-> 0]

(* BolaEnh.get_quality_delay: the placeholder absorbs the delay           *)
AbsorbDelay(placeholder, excess) ==
    IF excess > 0
    THEN IF excess <= placeholder
         THEN [placeholder |-> placeholder - excess, delay |-> 0]
         ELSE [placeholder |-> 0, delay |-> excess - placeholder]
    ELSE [placeholder |-> placeholder, delay |-> 0]

(* bits > safe_size for safe_size = ibr_safety * (buffer_level -          *)
(* gs.latency) * gs.throughput; the product is split to stay in range     *)
AboveSafeSize(bits, ibr_safety, time, throughput) ==
    LET x == time * throughput
        i1 == ibr_safety \div 1000
        i0 == ibr_safety % 1000
        x1 == x \div 1000
        x0 == x % 1000
        rest == (i1 * x0 + i0 * x1) * 1000 + i0 * x0
    IN  IF x <= 0 THEN TRUE
        ELSE bits - i1 * x1 > rest \div SafetyUnit

(* the insufficient buffer rule: the quality it shifts down to, or        *)
(* quality itself                                                          *)
InsufficientBufferQuality(g, ibr_safety, buffer_level, quality) ==
    LET short == { q \in 0 .. (quality - 1) :
                     AboveSafeSize(BolaeBitrates[q + 2] * SegmentTime, ibr_safety,
                                   buffer_level - g.latency, g.throughput) }
    IN  IF short = {} THEN quality ELSE SetMin(short)

NextSafety(ibr_safety) ==
    IF ibr_safety * 9 <= low_buffer_safety_factor * 10 THEN low_buffer_safety_factor
    ELSE Div(ibr_safety * 9, 10)

(* variant: a seek leaves the state as it is *)
ReportSeekKeepsState(abr, where) ==
    [abr EXCEPT !.placeholder = 0, !.last_quality = get_first_quality,
                !.last_seek_index = where \div SegmentTime]

(* BolaEnh.report_seek *)
bolae_report_seek(abr, where) ==
    [abr EXCEPT !.state = "STARTUP", !.placeholder = 0,
                !.last_quality = get_first_quality,
                !.last_seek_index = where \div SegmentTime]

(* BolaEnh.get_quality_delay: the object after the call and what is returned *)
bolae_get_quality_delay(abr, g, a) ==
    LET buffer_level == get_buffer_level(g)
    IN  IF abr.state = "STARTUP"
        THEN IF g.throughput = None
             THEN [abr |-> abr, quality |-> abr.last_quality, delay |-> 0]
             ELSE LET quality == quality_from_throughput(g)
                  IN  [abr |-> [abr EXCEPT
                                   !.state = "STEADY",
                                   !.ibr_safety = low_buffer_safety_factor_init,
                                   !.placeholder =
                                       Max(0, min_buffer_for_quality(a, quality) - buffer_level)],
                       quality |-> quality, delay |-> 0]
        ELSE LET quality == BolaeOscillation(a,
                                quality_from_buffer(a, buffer_level + abr.placeholder),
                                abr.last_quality, quality_from_throughput(g))
                 max_level == max_buffer_for_quality(a, quality)
                 absorbed == AbsorbDelay(abr.placeholder,
                                         buffer_level + abr.placeholder - max_level)
                 returned == IF quality = Len(BolaeBitrates) - 1 THEN 0 ELSE absorbed.delay
                 shifted == IF a.no_ibr THEN quality
                            ELSE InsufficientBufferQuality(g, abr.ibr_safety,
                                                           buffer_level, quality)
             IN  IF shifted = quality
                 THEN [abr |-> [abr EXCEPT
                                   !.placeholder = absorbed.placeholder,
                                   !.ibr_safety = IF a.no_ibr THEN @ ELSE NextSafety(@)],
                       quality |-> quality, delay |-> returned]
                 ELSE [abr |-> [abr EXCEPT
                                   !.placeholder =
                                       Min(Max(0, min_buffer_for_quality(a, shifted)
                                                      - buffer_level),
                                           absorbed.placeholder),
                                   !.ibr_safety = NextSafety(@)],
                       quality |-> shifted, delay |-> 0]

(* BolaEnh.report_delay *)
bolae_report_delay(abr, reported) == [abr EXCEPT !.placeholder = @ + reported]

(* variant: the placeholder is capped without the floor of 0 *)
ReportDownloadUnfloored(abr, g, a, metrics, is_replacment) ==
    LET level == get_buffer_level(g)
        level_was == level + metrics.time
        max_placeholder == max_buffer_for_quality(a, metrics.quality) - level_was
        lowered == Min(abr.placeholder, max_placeholder)
        min_placeholder == min_buffer_for_quality(a, metrics.quality) - level_was
        want_level == IF metrics.abandon_to_quality > 0
                      THEN min_buffer_for_quality(a, metrics.abandon_to_quality)
                      ELSE minimum_buffer
        placeholder ==
            IF metrics.abandon_to_quality = None
            THEN IF is_replacment THEN abr.placeholder + SegmentTime
                 ELSE IF level > 0 THEN Max(lowered, min_placeholder)
                 ELSE lowered
            ELSE IF ~is_replacment THEN Min(abr.placeholder, want_level - level)
            ELSE abr.placeholder
    IN  [abr EXCEPT !.last_quality = metrics.quality, !.placeholder = placeholder]

(* BolaEnh.report_download *)
bolae_report_download(abr, g, a, metrics, is_replacment) ==
    LET level == get_buffer_level(g)
        level_was == level + metrics.time
        max_placeholder == Max(0, max_buffer_for_quality(a, metrics.quality) - level_was)
        lowered == Min(abr.placeholder, max_placeholder)
        min_placeholder == min_buffer_for_quality(a, metrics.quality) - level_was
        want_level == IF metrics.abandon_to_quality > 0
                      THEN min_buffer_for_quality(a, metrics.abandon_to_quality)
                      ELSE minimum_buffer
        placeholder ==
            IF metrics.abandon_to_quality = None
            THEN IF is_replacment THEN abr.placeholder + SegmentTime
                 ELSE IF level > 0 THEN Max(lowered, min_placeholder)
                 ELSE lowered
            ELSE IF ~is_replacment THEN Min(abr.placeholder, Max(0, want_level - level))
            ELSE abr.placeholder
    IN  [abr EXCEPT !.last_quality = metrics.quality, !.placeholder = placeholder]

BolaeBufferLevels == { <<0, 0>>, <<2, 0>>, <<5, 0>>, <<6, 3000>> }
BolaeThroughputs == {2, 6, 20}
BolaeLatencies == {0, 100}
BolaeDelays == {1000, 3000}
BolaeDownloadTimes == {1000, 5000}
BolaeSeeks == {0, 8000}

BolaeInit ==
    /\ gs = [buffer_contents |-> << >>, buffer_fcc |-> 0,
             throughput |-> None, latency |-> None]
    /\ network = InitialNetwork(<< Period(SegmentTime, 12, 0) >>)
    /\ \E osc \in BOOLEAN, ibr \in BOOLEAN :
           args = [no_abandon |-> FALSE, replace |-> "none", abr |-> "bolae",
                   classes |-> "sabre.py", abr_osc |-> osc, no_ibr |-> ibr]
    /\ pc = "abr"
    /\ dep = IdleFrame
    /\ cur = [state |-> "STARTUP", placeholder |-> 0, last_quality |-> 0,
              ibr_safety |-> None, last_seek_index |-> 0,
              called |-> "__init__", quality |-> None, delay |-> None]
    /\ env = [calls |-> 0]

(* the session downloads and plays: the buffer at the next call of the ABR *)
BufferMoves ==
    /\ pc = "abr"
    /\ \E b \in BolaeBufferLevels :
         gs' = [gs EXCEPT !.buffer_contents = [i \in 1 .. b[1] |-> <<i - 1, 0>>],
                          !.buffer_fcc = b[2]]
    /\ UNCHANGED <<network, args, pc, dep, cur, env>>

(* ThroughputHistory.push sets gs.throughput and gs.latency *)
ThroughputPush ==
    /\ pc = "abr"
    /\ \E tput \in BolaeThroughputs, lat \in BolaeLatencies :
         gs' = [gs EXCEPT !.throughput = tput, !.latency = lat]
    /\ UNCHANGED <<network, args, pc, dep, cur, env>>

Called(abr, name, quality, returned) ==
    [abr EXCEPT !.called = name, !.quality = quality, !.delay = returned]

BolaeGetQualityDelay ==
    /\ pc = "abr"
    /\ env.calls < MaxAbrCalls
    /\ LET r == bolae_get_quality_delay(cur, gs, args)
       IN  cur' = Called(r.abr, "get_quality_delay", r.quality, r.delay)
    /\ env' = [env EXCEPT !.calls = @ + 1]
    /\ UNCHANGED <<gs, network, args, pc, dep>>

BolaeReportDelay ==
    /\ pc = "abr"
    /\ env.calls < MaxAbrCalls
    /\ \E reported \in BolaeDelays :
         cur' = Called(bolae_report_delay(cur, reported), "report_delay", None, None)
    /\ env' = [env EXCEPT !.calls = @ + 1]
    /\ UNCHANGED <<gs, network, args, pc, dep>>

BolaeReportDownload ==
    /\ pc = "abr"
    /\ env.calls < MaxAbrCalls
    /\ \E quality \in BolaeQualities, time \in BolaeDownloadTimes, abandon_to_quality \in BolaeQualities \cup {None}, is_replacment \in BOOLEAN :
         /\ abandon_to_quality # None => abandon_to_quality < quality
         /\ cur' = Called(bolae_report_download(cur, gs, args,
                              [quality |-> quality, time |-> time,
                               abandon_to_quality |-> abandon_to_quality],
                              is_replacment),
                          "report_download", None, None)
    /\ env' = [env EXCEPT !.calls = @ + 1]
    /\ UNCHANGED <<gs, network, args, pc, dep>>

BolaeReportSeek ==
    /\ pc = "abr"
    /\ env.calls < MaxAbrCalls
    /\ \E where \in BolaeSeeks :
         cur' = Called(bolae_report_seek(cur, where), "report_seek", None, None)
    /\ env' = [env EXCEPT !.calls = @ + 1]
    /\ UNCHANGED <<gs, network, args, pc, dep>>

BolaeNext ==
    \/ BufferMoves
    \/ ThroughputPush
    \/ BolaeGetQualityDelay
    \/ BolaeReportDelay
    \/ BolaeReportDownload
    \/ BolaeReportSeek

SpecBolaE == BolaeInit /\ [][BolaeNext]_vars

(* the method of the ABR this step calls, "" for a step of the session *)
AbrCall == IF env'.calls = env.calls THEN "" ELSE cur'.called

(* the highest quality whose segment downloads within segment_time at the *)
(* estimated throughput and latency, all lower ones doing so too          *)
FitsThroughput(q) ==
    gs.latency * gs.throughput + SegmentTime * BolaeBitrates[q + 1]
        <= SegmentTime * gs.throughput
HighestFitting ==
    SetMax({0} \cup { q \in BolaeQualities \ {0} : \A j \in 1 .. q : FitsThroughput(j) })

LeavesStartup ==
    AbrCall = "get_quality_delay" /\ cur.state = "STARTUP" /\ gs.throughput # None

\* C28: BOLA-E is in STARTUP after construction and after every
\* report_seek, which also sets placeholder = 0 and last_quality = first
\* quality; in STARTUP without a throughput estimate get_quality_delay
\* returns (last_quality, 0) and stays in STARTUP; the first
\* get_quality_delay with a known throughput moves to STEADY, returns
\* (quality_from_throughput(throughput), 0) and sets placeholder =
\* max(0, min_buffer_for_quality(q) - buffer_level); nothing else changes
\* the state.
C28_StartupSteady ==
    /\ cur.state = "STARTUP"
    /\ [][/\ AbrCall = "report_seek" =>
               /\ cur'.state = "STARTUP"
               /\ cur'.placeholder = 0
               /\ cur'.last_quality = get_first_quality
          /\ AbrCall = "get_quality_delay" /\ cur.state = "STARTUP" /\ gs.throughput = None =>
               /\ cur'.state = "STARTUP"
               /\ cur'.quality = cur.last_quality
               /\ cur'.delay = 0
          /\ LeavesStartup =>
               /\ cur'.state = "STEADY"
               /\ cur'.quality = HighestFitting
               /\ cur'.delay = 0
               /\ cur'.placeholder
                      = Max(0, min_buffer_for_quality(args, HighestFitting)
                                   - get_buffer_level(gs))
          /\ ~(AbrCall = "report_seek" \/ LeavesStartup) => cur'.state = cur.state]_vars

\* STEADY has been reached again after a seek, with a placeholder
C28_Witness ==
    /\ cur.state = "STEADY"
    /\ cur.called = "get_quality_delay"
    /\ cur.last_seek_index > 0
    /\ cur.placeholder > 0

SteadyDecision == AbrCall = "get_quality_delay" /\ cur.state = "STEADY"

(* the quality STEADY chooses before the insufficient buffer rule *)
ChosenQuality ==
    BolaeOscillation(args,
                     quality_from_buffer(args, get_buffer_level(gs) + cur.placeholder),
                     cur.last_quality, quality_from_throughput(gs))

NotDownshifted == cur'.quality = ChosenQuality

\* C29: in STEADY, with excess = buffer_level + placeholder -
\* max_buffer_for_quality(q) for the chosen quality q and the insufficient
\* buffer rule not downshifting: excess <= 0 leaves the placeholder and
\* returns delay 0; 0 < excess <= placeholder takes excess off the
\* placeholder and returns delay 0; excess > placeholder zeroes the
\* placeholder and returns excess - placeholder; at the top quality the
\* returned delay is 0.
C29_PlaceholderAbsorbsDelay ==
    [][SteadyDecision /\ NotDownshifted =>
          LET q == cur'.quality
              excess == get_buffer_level(gs) + cur.placeholder
                            - max_buffer_for_quality(args, q)
          IN  /\ excess <= 0 => cur'.placeholder = cur.placeholder /\ cur'.delay = 0
              /\ 0 < excess /\ excess <= cur.placeholder =>
                     cur'.placeholder = cur.placeholder - excess /\ cur'.delay = 0
              /\ excess > cur.placeholder =>
                     cur'.placeholder = 0 /\ cur'.delay = excess - cur.placeholder
              /\ q = Len(BolaeBitrates) - 1 => cur'.delay = 0]_vars

\* a STEADY decision that returned a delay after using up the placeholder
C29_Witness ==
    /\ cur.state = "STEADY"
    /\ cur.called = "get_quality_delay"
    /\ cur.delay # None
    /\ cur.delay > 0
    /\ cur.placeholder = 0

\* C30: for every buffer-chosen quality, last_quality, throughput-chosen
\* quality and abr_osc setting, the oscillation step of BOLA-E's STEADY
\* yields the quality BOLA's oscillation control yields.
C30_SameOscillationRule ==
    [][SteadyDecision =>
          LET quality == quality_from_buffer(args, get_buffer_level(gs) + cur.placeholder)
              quality_t == quality_from_throughput(gs)
          IN  BolaeOscillation(args, quality, cur.last_quality, quality_t)
                  = BolaOscillation(args, quality, cur.last_quality, quality_t)]_vars

\* C40: BOLA-E's placeholder is non-negative after any sequence of
\* get_quality_delay, report_delay (delay >= 0), report_download
\* (successful, replacement or abandoned) and report_seek calls.
C40_PlaceholderNonNegative == cur.placeholder >= 0

\* a download was reported to a STEADY BOLA-E with a filled buffer and
\* left the placeholder at its floor
C40_Witness ==
    /\ cur.called = "report_download"
    /\ cur.state = "STEADY"
    /\ get_buffer_level(gs) > 0
    /\ cur.placeholder = 0
    /\ env.calls = MaxAbrCalls

\* C37: in every reachable state the buffer level segment_time * |buffer|
\* - buffer_fcc is non-negative; buffer_fcc > 0 implies the buffer is
\* non-empty, also right after a seek that cleared the buffer, and
\* playout_buffer never depletes by a negative amount.
C37_BufferLevelNonNegative ==
    /\ get_buffer_level(gs) >= 0
    /\ gs.buffer_fcc > 0 => gs.buffer_contents # << >>
    /\ dep.ret = "playout" => dep.time >= 0

\* C38: rebuffer_time never decreases, and rebuffer_event_count increases
\* only in a step in which rebuffer_time strictly increases: no rebuffer
\* event is counted for a stall of zero or negative length.
C38_RebufferEventsNeedTime ==
    [][/\ gs'.rebuffer_time >= gs.rebuffer_time
       /\ gs'.rebuffer_event_count >= gs.rebuffer_event_count
       /\ gs'.rebuffer_event_count > gs.rebuffer_event_count
              => gs'.rebuffer_time > gs.rebuffer_time]_vars

-----------------------------------------------------------------------------
(* The session with the bookkeeping of the reaction time to increased     *)
(* bandwidth (sabre.py 263-304, 560-578, 225-228, 248).                   *)

(* gs with the fields of the bookkeeping as __main__ and                  *)
(* NetworkModel.__init__ leave them (sabre.py 1848, 546-552)              *)
WithQualityUp(g, trace) ==
    LET fields == {"pending_quality_up", "total_reaction_time", "sustainable_quality", "max_buffer_size", "period_changes"}
        g0 == [f \in DOMAIN g \cup fields |->
                 CASE f = "pending_quality_up" -> << >>
                   [] f = "total_reaction_time" -> 0
                   [] f = "sustainable_quality" -> 0
                   [] f = "max_buffer_size" -> g.buffer_size
                   [] f = "period_changes" -> << >>
                   [] OTHER -> g[f]]
    IN  UpdateSustainableQuality(g0, trace[1])

ReactionInit ==
    /\ \E seeks \in SeekSchedules, trace \in Traces :
           /\ gs = WithQualityUp(InitialState(seeks, BufferSize, NumSegments), trace)
           /\ network = InitialNetwork(trace)
    /\ \E na \in BOOLEAN, r \in Replacers, a \in Abrs :
           args = [no_abandon |-> na, replace |-> r, abr |-> a,
                   classes |-> "sabre.py"]
    /\ pc = "start"
    /\ dep = IdleFrame
    /\ cur = NoLocals
    /\ env = [delays |-> MaxAbrDelays, abandons |-> MaxAbandons]

SpecReaction == ReactionInit /\ [][Next]_vars

(* the entries of the list that have been marked done *)
Completed(g) ==
    { i \in 1 .. Len(g.pending_quality_up) : Len(g.pending_quality_up[i]) = 3 }

\* C39: every completed pending-quality-up entry has completed_at >=
\* advertised_at, so each retired entry adds a value between 0 and
\* max_buffer_size to total_reaction_time and total_reaction_time never
\* decreases, also after seeks.
C39_ReactionNonNegative ==
    [][/\ \A i \in Completed(gs') :
              gs'.pending_quality_up[i][3] >= gs'.pending_quality_up[i][1]
       /\ gs'.total_reaction_time >= gs.total_reaction_time
       /\ gs'.total_reaction_time - gs.total_reaction_time
              <= gs.max_buffer_size * (Len(gs.pending_quality_up) + 1)]_vars

-----------------------------------------------------------------------------
(* check_abandon of Bola, BolaEnh and ThroughputRule, called by            *)
(* NetworkModel.download after every minimal download of an unfinished     *)
(* segment.  progress is the DownloadProgress handed to the callback.      *)
(* Sizes that the code divides are kept as fractions num / den.            *)

abandon_grace_time == 500
abandon_multiplier == [num |-> 9, den |-> 5]
safety_factor == [num |-> 9, den |-> 10]

\* Vp * (gp + utilities[q]) as Bola.__init__ sets it (gp = 5)
BolaLevels == BolaeLevels(TRUE)

\* progress.size * bitrates[q] / bitrates[progress.quality]
OtherSize(progress, q) ==
    Fraction(progress.size * BolaeBitrates[q + 1], BolaeBitrates[progress.quality + 1])

SizeBelow(s1, s2) == s1.num * s2.den < s2.num * s1.den

\* level / size of score1 > level / size of score2, for sizes above 0
ScoreAbove(score1, score2) ==
    LET r == Fraction(score1.size.den * score2.size.num,
                      score2.size.den * score1.size.num)
    IN  score1.level * r.num > score2.level * r.den

(* the loop of check_abandon that takes any better-scoring lower quality, *)
(* whatever its size                                                       *)
RECURSIVE AbandonLoopIgnoresSize(_, _, _, _, _, _, _)
AbandonLoopIgnoresSize(levels, progress, bl, limit, q, score, abandon_to) ==
    IF q >= progress.quality THEN abandon_to
    ELSE LET other_size == OtherSize(progress, q)
             other_score == [level |-> levels[q + 1] - bl, size |-> other_size]
         IN  IF ScoreAbove(other_score, score)
             THEN AbandonLoopIgnoresSize(levels, progress, bl, limit, q + 1, other_score, q)
             ELSE AbandonLoopIgnoresSize(levels, progress, bl, limit, q + 1, score, abandon_to)

(* for q in range(progress.quality): the loop of Bola.check_abandon and   *)
(* of BolaEnh.check_abandon; limit is remain for Bola and sz for BolaEnh  *)
RECURSIVE AbandonLoop(_, _, _, _, _, _, _)
AbandonLoop(levels, progress, bl, limit, q, score, abandon_to) ==
    IF q >= progress.quality THEN abandon_to
    ELSE LET other_size == OtherSize(progress, q)
             other_score == [level |-> levels[q + 1] - bl, size |-> other_size]
         IN  IF SizeBelow(other_size, limit) /\ ScoreAbove(other_score, score)
             THEN AbandonLoop(levels, progress, bl, limit, q + 1, other_score, q)
             ELSE AbandonLoop(levels, progress, bl, limit, q + 1, score, abandon_to)

(* Bola.check_abandon *)
bola_check_abandon(a, progress, buffer_level) ==
    LET remain == progress.size - progress.downloaded
        level == BolaLevels[progress.quality + 1] - buffer_level
    IN  IF a.abr_basic THEN None
        ELSE IF progress.downloaded <= 0 \/ remain <= 0 THEN None
        ELSE IF level < 0 THEN None
        ELSE AbandonLoop(BolaLevels, progress, buffer_level, Fraction(remain, 1), 0,
                         [level |-> level, size |-> Fraction(remain, 1)], None)

(* BolaEnh.check_abandon: tp = downloaded / (time - time_to_first_bit),   *)
(* sz = remain - time_to_first_bit * tp                                    *)
bolae_check_abandon(abr, a, progress, buffer_level) ==
    LET remain == progress.size - progress.downloaded
        bl == Max(0, buffer_level + abr.placeholder - progress.time_to_first_bit)
        dl_time == progress.time - progress.time_to_first_bit
        bits == remain * dl_time - progress.time_to_first_bit * progress.downloaded
        levels == BolaeLevels(a.no_ibr)
    IN  IF progress.downloaded <= 0 \/ remain <= 0 THEN None
        ELSE IF bits <= 0 THEN None
        ELSE AbandonLoop(levels, progress, bl, Fraction(bits, dl_time), 0,
                         [level |-> levels[progress.quality + 1] - bl,
                          size |-> Fraction(bits, dl_time)], None)

(* Abr.quality_from_throughput for a throughput tput.num / tput.den *)
RECURSIVE ThroughputRuleLoop(_, _, _)
ThroughputRuleLoop(g, tput, quality) ==
    IF /\ quality + 1 < Len(BolaeBitrates)
       /\ g.latency * tput.num + SegmentTime * BolaeBitrates[quality + 2] * tput.den
              <= SegmentTime * tput.num
    THEN ThroughputRuleLoop(g, tput, quality + 1)
    ELSE quality

(* ThroughputRule.check_abandon *)
throughput_check_abandon(g, progress) ==
    LET dl_time == progress.time - progress.time_to_first_bit
        size_left == progress.size - progress.downloaded
        \* progress.time + size_left / tput, with tput = downloaded / dl_time
        ratio == Fraction(size_left, progress.downloaded)
        quality == ThroughputRuleLoop(g, Fraction(progress.downloaded * safety_factor.num,
                                                  dl_time * safety_factor.den), 0)
        estimate_size == OtherSize(progress, quality)
    IN  IF progress.time >= abandon_grace_time /\ dl_time > 0
        THEN IF (progress.time * ratio.den + ratio.num * dl_time) * abandon_multiplier.den
                    > abandon_multiplier.num * SegmentTime * ratio.den
             THEN IF \/ quality >= progress.quality
                     \/ ~SizeBelow(estimate_size, Fraction(size_left, 1))
                  THEN None
                  ELSE quality
             ELSE None
        ELSE None

AbandonAbrs == {"bola", "bolae", "throughput"}
AbandonBufferLevels == {0, 4000, 12000, 20000}
AbandonPlaceholders == {0, 4000}
AbandonFirstBits == {0, 200, 1000}
\* what one do_minimal_download adds: << time, bits >>, at least
\* min_progress_size bits
AbandonSteps == { <<200, min_progress_size>>, <<1600, min_progress_size>>, <<4000, min_progress_size>>, <<1000, 18000>> }
\* segment_sizes_bits of the segment downloaded: twice the average size
AbandonSegment == [q \in 1 .. Len(BolaeBitrates) |-> 2 * BolaeBitrates[q] * SegmentTime]

\* the DownloadProgress of a download of the segment at a quality, after
\* do_latency_delay
StartProgress(quality, latency) ==
    [quality |-> quality, size |-> AbandonSegment[quality + 1],
     downloaded |-> 0, time |-> latency, time_to_first_bit |-> latency]

AbandonInit ==
    /\ \E lat \in BolaeLatencies :
         gs = [buffer_contents |-> << >>, buffer_fcc |-> 0,
               throughput |-> None, latency |-> lat]
    /\ network = InitialNetwork(<< Period(SegmentTime, 12, 0) >>)
    /\ \E abr \in AbandonAbrs, basic \in BOOLEAN, ibr \in BOOLEAN :
         /\ abr # "bola" => ~basic
         /\ abr # "bolae" => ~ibr
         /\ args = [no_abandon |-> FALSE, replace |-> "none", abr |-> abr,
                    classes |-> "abr_algorithms.py", abr_basic |-> basic,
                    no_ibr |-> ibr]
    /\ pc = "download"
    /\ dep = IdleFrame
    /\ \E quality \in BolaeQualities, latency \in AbandonFirstBits, placeholder \in AbandonPlaceholders :
         /\ args.abr # "bolae" => placeholder = 0
         /\ cur = [progress |-> StartProgress(quality, latency),
                   checked |-> StartProgress(quality, latency),
                   returned |-> None, placeholder |-> placeholder,
                   last_quality |-> quality]
         /\ env = [abandons |-> 0, first_quality |-> quality]

(* NetworkModel.download: one round of the loop up to the callback *)
MinimalDownload ==
    /\ pc = "download"
    /\ \E step \in AbandonSteps :
         LET downloaded == Min(cur.progress.size, cur.progress.downloaded + step[2])
         IN  /\ cur' = [cur EXCEPT !.progress.downloaded = downloaded,
                                   !.progress.time = @ + step[1]]
             /\ pc' = IF downloaded < cur.progress.size THEN "check" ELSE "done"
    /\ UNCHANGED <<gs, network, args, dep, env>>

\* the callback has answered: the download goes on, or it ends and the
\* session downloads the segment again at the quality returned
Answered(abr, returned) ==
    /\ cur' = [abr EXCEPT !.checked = cur.progress,
                          !.returned = returned,
                          !.progress = IF returned = None THEN @
                                       ELSE StartProgress(returned, @.time_to_first_bit)]
    /\ env' = [env EXCEPT !.abandons = IF returned = None THEN @ ELSE @ + 1]
    /\ pc' = "download"
    /\ UNCHANGED <<gs, network, args, dep>>

BolaCheckAbandon ==
    /\ pc = "check"
    /\ args.abr = "bola"
    /\ \E buffer_level \in AbandonBufferLevels :
         LET abandon_to == bola_check_abandon(args, cur.progress, buffer_level)
         IN  Answered([cur EXCEPT !.last_quality = IF abandon_to # None THEN abandon_to ELSE @],
                      abandon_to)

BolaeCheckAbandon ==
    /\ pc = "check"
    /\ args.abr = "bolae"
    /\ \E buffer_level \in AbandonBufferLevels :
         Answered(cur, bolae_check_abandon(cur, args, cur.progress, buffer_level))

ThroughputCheckAbandon ==
    /\ pc = "check"
    /\ args.abr = "throughput"
    /\ Answered(cur, throughput_check_abandon(gs, cur.progress))

(* the segment is complete: the session goes on to the next one *)
NextDownload ==
    /\ pc = "done"
    /\ \E quality \in BolaeQualities :
         /\ cur' = [cur EXCEPT !.progress = StartProgress(quality, @.time_to_first_bit),
                               !.checked = StartProgress(quality, @.time_to_first_bit),
                               !.returned = None,
                               !.last_quality = quality]
         /\ env' = [abandons |-> 0, first_quality |-> quality]
    /\ pc' = "download"
    /\ UNCHANGED <<gs, network, args, dep>>

AbandonNext ==
    \/ MinimalDownload
    \/ BolaCheckAbandon
    \/ BolaeCheckAbandon
    \/ ThroughputCheckAbandon
    \/ NextDownload

SpecAbandon == AbandonInit /\ [][AbandonNext]_vars

\* C31: check_abandon of Bola, BolaEnh and ThroughputRule returns null or a
\* quality strictly below progress.quality whose estimated size
\* progress.size * bitrates[q'] / bitrates[progress.quality] is strictly
\* less than the bits that remained; the download that follows is at that
\* quality, so a segment is abandoned at most as many times as the quality
\* it was first requested at.
C31_AbandonLowerAndSmaller ==
    /\ cur.returned # None =>
           /\ cur.returned \in 0 .. (cur.checked.quality - 1)
           /\ cur.checked.size * BolaeBitrates[cur.returned + 1]
                  < (cur.checked.size - cur.checked.downloaded)
                        * BolaeBitrates[cur.checked.quality + 1]
           /\ cur.progress.quality = cur.returned
    /\ env.abandons <= env.first_quality

\* a segment first requested at the top quality is abandoned twice
C31_Witness ==
    /\ cur.returned = 0
    /\ cur.checked.quality = 1
    /\ env.first_quality = 2
    /\ env.abandons = 2

-----------------------------------------------------------------------------
(* The composite strategies Dynamic (Bola and ThroughputRule) and          *)
(* DynamicDash (BolaEnh and ThroughputRule) of abr_algorithms.py: the      *)
(* object is in cur (is_bola, bola, tput), its methods are called in any   *)
(* order between moves of the buffer and throughput pushes.                *)

low_buffer_threshold == 10000
low_threshold == 5000
high_threshold == 10000
CompositeSegments == 26

\* Vp * (gp + utilities[q]) of Bola for the buffer size Vp was set from,
\* rounded to a millisecond
BolaLevelsFor(buffer_size) ==
    [q \in 1 .. Len(BolaeBitrates) |->
        (2 * BolaLevels[q] * (buffer_size - SegmentTime) + (BolaeBufferSize - SegmentTime))
            \div (2 * (BolaeBufferSize - SegmentTime))]

(* Bola.quality_from_buffer *)
RECURSIVE BolaBufferLoop(_, _, _, _)
BolaBufferLoop(levels, level, q, quality) ==
    IF q >= Len(BolaeBitrates) THEN quality
    ELSE IF (levels[q + 1] - level) * BolaeBitrates[quality + 1]
                > (levels[quality + 1] - level) * BolaeBitrates[q + 1]
    THEN BolaBufferLoop(levels, level, q + 1, q)
    ELSE BolaBufferLoop(levels, level, q + 1, quality)

(* Bola.get_quality_delay *)
bola_get_quality_delay(bola, g, a, segment_index) ==
    LET t == Min(segment_index - bola.last_seek_index, CompositeSegments - segment_index)
        vp_buffer == IF a.abr_basic THEN bola.vp_buffer
                     ELSE Min(BolaeBufferSize, Max(Div(t * SegmentTime, 2), 3 * SegmentTime))
        levels == BolaLevelsFor(vp_buffer)
        level == get_buffer_level(g)
        quality == BolaBufferLoop(levels, level, 1, 0)
        quality_t == quality_from_throughput(g)
        chosen == BolaOscillation(a, quality, bola.last_quality, quality_t)
        returned == IF /\ quality > bola.last_quality
                       /\ quality > quality_t
                       /\ bola.last_quality <= quality_t
                       /\ a.abr_osc
                       /\ chosen # Len(BolaeBitrates) - 1
                    THEN Max(0, level - levels[chosen + 1])
                    ELSE 0
    IN  [abr |-> [bola EXCEPT !.vp_buffer = vp_buffer, !.last_quality = chosen],
         quality |-> chosen, delay |-> returned]

(* ThroughputRule.get_quality_delay *)
throughput_get_quality_delay(tput, g, a) ==
    LET quality == ThroughputRuleLoop(g, Fraction(g.throughput * safety_factor.num,
                                                  safety_factor.den), 0)
    IN  IF a.no_ibr
        THEN [abr |-> tput, quality |-> quality, delay |-> 0]
        ELSE [abr |-> [tput EXCEPT !.ibr_safety = NextSafety(@)],
              quality |-> InsufficientBufferQuality(g, tput.ibr_safety,
                                                    get_buffer_level(g), quality),
              delay |-> 0]

(* Dynamic.get_quality_delay: both strategies are asked *)
dynamic_get_quality_delay(abr, g, a, segment_index) ==
    LET level == get_buffer_level(g)
        b == bola_get_quality_delay(abr.bola, g, a, segment_index)
        t == throughput_get_quality_delay(abr.tput, g, a)
        is_bola == IF abr.is_bola
                   THEN ~(level < low_buffer_threshold /\ b.quality < t.quality)
                   ELSE level > low_buffer_threshold /\ b.quality >= t.quality
        answer == IF is_bola THEN b ELSE t
    IN  [abr |-> [abr EXCEPT !.is_bola = is_bola, !.bola = b.abr, !.tput = t.abr],
         quality |-> answer.quality, delay |-> answer.delay]

(* DynamicDash.get_quality_delay: only the selected strategy is asked *)
dynamicdash_get_quality_delay(abr, g, a) ==
    LET level == get_buffer_level(g)
        is_bola == IF abr.is_bola /\ level < low_threshold THEN FALSE
                   ELSE IF ~abr.is_bola /\ level > high_threshold THEN TRUE
                   ELSE abr.is_bola
    IN  IF is_bola
        THEN LET b == bolae_get_quality_delay(abr.bola, g, a)
             IN  [abr |-> [abr EXCEPT !.is_bola = is_bola, !.bola = b.abr],
                  quality |-> b.quality, delay |-> b.delay]
        ELSE LET t == throughput_get_quality_delay(abr.tput, g, a)
             IN  [abr |-> [abr EXCEPT !.is_bola = is_bola, !.tput = t.abr],
                  quality |-> t.quality, delay |-> t.delay]

(* Dynamic.report_download *)
dynamic_report_download(abr, metrics, is_replacment) ==
    IF is_replacment THEN [abr EXCEPT !.is_bola = FALSE] ELSE abr

(* DynamicDash.report_download *)
dynamicdash_report_download(abr, g, a, metrics, is_replacment) ==
    [abr EXCEPT !.bola = bolae_report_download(@, g, a, metrics, is_replacment)]

(* Dynamic.check_abandon: if False and gs.is_bola *)
dynamic_check_abandon(abr, g, a, progress, buffer_level) ==
    throughput_check_abandon(g, progress)

(* DynamicDash.check_abandon *)
dynamicdash_check_abandon(abr, g, a, progress, buffer_level) ==
    IF abr.is_bola
    THEN bolae_check_abandon(abr.bola, a, progress, buffer_level)
    ELSE throughput_check_abandon(g, progress)

(* Bola.report_seek and ThroughputRule.report_seek *)
bola_report_seek(bola, where) ==
    [bola EXCEPT !.last_seek_index = where \div SegmentTime,
                 !.last_quality = get_first_quality]

throughput_report_seek(tput, where) ==
    [tput EXCEPT !.ibr_safety = low_buffer_safety_factor_init]

CompositeAbrs == {"dynamic", "dynamicdash"}
CompositeBufferLevels == { <<1, 0>>, <<2, 3000>>, <<3, 2000>>, <<4, 0>> }
CompositeSegmentIndexes == {8, 13}
CompositeAbandonLevels == {0, 20000}
\* the DownloadProgress handed to check_abandon: a download of the top
\* quality after its first round
CompositeProgress == { [quality |-> 2, size |-> AbandonSegment[3], downloaded |-> min_progress_size, time |-> 1000 + step, time_to_first_bit |-> 1000] : step \in {200, 1600} }

CompositeInit ==
    /\ \E tput \in BolaeThroughputs, lat \in BolaeLatencies :
         gs = [buffer_contents |-> << >>, buffer_fcc |-> 0,
               throughput |-> tput, latency |-> lat]
    /\ network = InitialNetwork(<< Period(SegmentTime, 12, 0) >>)
    /\ \E abr \in CompositeAbrs, osc \in BOOLEAN, ibr \in BOOLEAN, basic \in BOOLEAN :
         /\ abr = "dynamicdash" => ~basic
         /\ args = [no_abandon |-> FALSE, replace |-> "none", abr |-> abr,
                    classes |-> "abr_algorithms.py", abr_osc |-> osc,
                    no_ibr |-> ibr, abr_basic |-> basic]
    /\ pc = "abr"
    /\ dep = IdleFrame
    /\ cur = [is_bola |-> FALSE,
              bola |-> IF args.abr = "dynamic"
                       THEN [last_quality |-> 0, last_seek_index |-> 0,
                             vp_buffer |-> BolaeBufferSize]
                       ELSE [state |-> "STARTUP", placeholder |-> 0, last_quality |-> 0,
                             ibr_safety |-> None, last_seek_index |-> 0],
              tput |-> [ibr_safety |-> low_buffer_safety_factor_init],
              called |-> "__init__", quality |-> None, delay |-> None,
              progress |-> None, buffer_level |-> None]
    /\ env = [calls |-> 0]

CompositeBufferMoves ==
    /\ pc = "abr"
    /\ \E b \in CompositeBufferLevels :
         gs' = [gs EXCEPT !.buffer_contents = [i \in 1 .. b[1] |-> <<i - 1, 0>>],
                          !.buffer_fcc = b[2]]
    /\ UNCHANGED <<network, args, pc, dep, cur, env>>

CompositeCall(abr) ==
    /\ pc = "abr"
    /\ args.abr = abr
    /\ env.calls < MaxAbrCalls
    /\ env' = [env EXCEPT !.calls = @ + 1]
    /\ UNCHANGED <<gs, network, args, pc, dep>>

DynamicGetQualityDelay ==
    /\ CompositeCall("dynamic")
    /\ \E segment_index \in CompositeSegmentIndexes :
         LET r == dynamic_get_quality_delay(cur, gs, args, segment_index)
         IN  cur' = Called(r.abr, "get_quality_delay", r.quality, r.delay)

DynamicDashGetQualityDelay ==
    /\ CompositeCall("dynamicdash")
    /\ LET r == dynamicdash_get_quality_delay(cur, gs, args)
       IN  cur' = Called(r.abr, "get_quality_delay", r.quality, r.delay)

DynamicReportDownload ==
    /\ CompositeCall("dynamic")
    /\ \E quality \in BolaeQualities, is_replacment \in BOOLEAN :
         cur' = Called(dynamic_report_download(cur,
                           [quality |-> quality, time |-> SegmentTime,
                            abandon_to_quality |-> None], is_replacment),
                       "report_download", None, None)

DynamicDashReportDownload ==
    /\ CompositeCall("dynamicdash")
    /\ \E quality \in BolaeQualities, is_replacment \in BOOLEAN :
         cur' = Called(dynamicdash_report_download(cur, gs, args,
                           [quality |-> quality, time |-> SegmentTime,
                            abandon_to_quality |-> None], is_replacment),
                       "report_download", None, None)

DynamicCheckAbandon ==
    /\ CompositeCall("dynamic")
    /\ \E progress \in CompositeProgress, buffer_level \in CompositeAbandonLevels :
         cur' = [Called(cur, "check_abandon",
                        dynamic_check_abandon(cur, gs, args, progress, buffer_level), None)
                   EXCEPT !.progress = progress, !.buffer_level = buffer_level]

DynamicDashCheckAbandon ==
    /\ CompositeCall("dynamicdash")
    /\ \E progress \in CompositeProgress, buffer_level \in CompositeAbandonLevels :
         cur' = [Called(cur, "check_abandon",
                        dynamicdash_check_abandon(cur, gs, args, progress, buffer_level), None)
                   EXCEPT !.progress = progress, !.buffer_level = buffer_level]

(* Dynamic.report_seek and DynamicDash.report_seek *)
CompositeReportSeek ==
    /\ pc = "abr"
    /\ env.calls < MaxAbrCalls
    /\ \E where \in BolaeSeeks :
         cur' = Called([cur EXCEPT !.bola = IF args.abr = "dynamic"
                                            THEN bola_report_seek(@, where)
                                            ELSE bolae_report_seek(@, where),
                                   !.tput = throughput_report_seek(@, where)],
                       "report_seek", None, None)
    /\ env' = [env EXCEPT !.calls = @ + 1]
    /\ UNCHANGED <<gs, network, args, pc, dep>>

(* Dynamic.report_delay and DynamicDash.report_delay: Bola and          *)
(* ThroughputRule take no note of a delay, BolaEnh adds it to the        *)
(* placeholder                                                            *)
CompositeReportDelay ==
    /\ pc = "abr"
    /\ env.calls < MaxAbrCalls
    /\ cur' = Called([cur EXCEPT !.bola = IF args.abr = "dynamic" THEN @
                                         ELSE bolae_report_delay(@, SegmentTime)],
                     "report_delay", None, None)
    /\ env' = [env EXCEPT !.calls = @ + 1]
    /\ UNCHANGED <<gs, network, args, pc, dep>>

CompositeNext ==
    \/ CompositeBufferMoves
    \/ ThroughputPush
    \/ DynamicGetQualityDelay
    \/ DynamicDashGetQualityDelay
    \/ DynamicReportDownload
    \/ DynamicDashReportDownload
    \/ DynamicCheckAbandon
    \/ DynamicDashCheckAbandon
    \/ CompositeReportSeek
    \/ CompositeReportDelay

SpecComposite == CompositeInit /\ [][CompositeNext]_vars

FlagRises == ~cur.is_bola /\ cur'.is_bola
FlagFalls == cur.is_bola /\ ~cur'.is_bola

\* the flag moves in get_quality_delay only
FlagMovesInDecision == cur'.is_bola # cur.is_bola => AbrCall = "get_quality_delay"

DashHysteresis ==
    LET level == get_buffer_level(gs)
    IN  args.abr = "dynamicdash" /\ AbrCall = "get_quality_delay" =>
            /\ FlagRises => level > 10000
            /\ FlagFalls => level < 5000
            /\ level \in 5000 .. 10000 => cur'.is_bola = cur.is_bola
            /\ cur'.quality = IF cur'.is_bola
                              THEN bolae_get_quality_delay(cur.bola, gs, args).quality
                              ELSE throughput_get_quality_delay(cur.tput, gs, args).quality

DynamicHysteresis ==
    \A segment_index \in CompositeSegmentIndexes :
        LET level == get_buffer_level(gs)
            b == bola_get_quality_delay(cur.bola, gs, args, segment_index)
            t == throughput_get_quality_delay(cur.tput, gs, args)
        IN  /\ args.abr = "dynamic"
            /\ AbrCall = "get_quality_delay"
            /\ cur'.bola = b.abr
            => /\ FlagRises => level > 10000 /\ b.quality >= t.quality
               /\ FlagFalls => level < 10000 /\ b.quality < t.quality
               /\ cur'.quality = IF cur'.is_bola THEN b.quality ELSE t.quality
               /\ cur'.delay = IF cur'.is_bola THEN b.delay ELSE t.delay

\* C32: is_bola of Dynamic and DynamicDash starts false and changes only by
\* the buffer-level hysteresis inside get_quality_delay (DynamicDash: up
\* above 10000, down below 5000, unchanged in between; Dynamic: up above
\* 10000 when BOLA's quality >= the throughput rule's, down below 10000
\* when BOLA's quality is lower), and the decision returned is that of
\* the strategy the updated flag selects.
C32_FlagHysteresis ==
    [][/\ env.calls = 0 => ~cur.is_bola
       /\ FlagMovesInDecision
       /\ DashHysteresis
       /\ DynamicHysteresis]_vars

\* C33: check_abandon of Dynamic and of DynamicDash returns what
\* ThroughputRule.check_abandon returns for the same progress, whatever
\* is_bola is.
C33_AbandonByThroughputRule ==
    cur.called = "check_abandon" =>
        cur.quality = throughput_check_abandon(gs, cur.progress)

-----------------------------------------------------------------------------
(* The trace cursor against the network clock, over the downloads (with   *)
(* and without abandonment) and delays of SpecCheckpoint.                  *)

RECURSIVE TraceTime(_, _)
TraceTime(trace, n) == IF n = 0 THEN 0 ELSE TraceTime(trace, n - 1) + trace[n].time

\* the place in the trace the cursor stands at, counted from its start
CursorTime(n) ==
    TraceTime(n.trace, n.index) + (n.trace[n.index + 1].time - n.time_to_next)

CursorConsistent(w) ==
    /\ w.n.index \in 0 .. (Len(w.n.trace) - 1)
    /\ w.n.time_to_next \in 0 .. w.n.trace[w.n.index + 1].time
    /\ CursorTime(w.n) % TraceTime(w.n.trace, Len(w.n.trace))
           = w.g.network_total_time % TraceTime(w.n.trace, Len(w.n.trace))

NetworkAdvance == gs'.network_total_time - gs.network_total_time

\* C34: after any sequence of NetworkModel.delay and NetworkModel.download
\* (with or without abandonment) 0 <= index < |trace|, 0 <= time_to_next <=
\* the duration of the current period, and the cursor's place in the trace
\* is congruent to network_total_time modulo the trace's total duration;
\* each operation advances network_total_time by exactly the time it
\* reports (a download) or is given (a delay).
C34_CursorFollowsClock ==
    [][/\ CursorConsistent(W)
       /\ CursorConsistent(W')
       /\ cur'.kind = "download" => NetworkAdvance = cur'.result.dp.time
       /\ cur'.kind = "delay" =>
              /\ NetworkAdvance \in CheckpointDelays
              /\ W' = delay(W, NetworkAdvance)]_vars

\* an abandoned download on the three-period trace has taken the cursor
\* round the end of the trace
C34_Witness ==
    /\ cur.kind = "download"
    /\ cur.result.dp.abandon_to_quality # None
    /\ Len(network.trace) = 3
    /\ gs.network_total_time > TraceTime(network.trace, 3)
    /\ network.index = 2

-----------------------------------------------------------------------------
(* NetworkModel.download where the quotients of the code are not exact:  *)
(* a trace with bandwidths 24 and 7 and a period of no bandwidth, whose   *)
(* first latency (2000 ms) outlasts its period.                           *)
RoundingTraces ==
    { << Period(1000, 24, 2000), Period(1000, 7, 0), Period(777, 0, 100) >>,
      << Period(100, 24, 2000) >> }
RoundingSizes == {12000, 48000, 100000}
RoundingDelays == {500, 1234}
MaxRoundingCalls == 3

\* a callback that answers null at every invocation
NullCallback == [kind |-> "abr", at |-> 0, to |-> None, replacing |-> None]

RoundingInit ==
    /\ gs = InitialState(<< >>, BufferSize, NumSegments)
    /\ \E trace \in RoundingTraces : network = InitialNetwork(trace)
    /\ args = [no_abandon |-> FALSE, replace |-> "none", abr |-> "bolae",
               classes |-> "sabre.py"]
    /\ pc = "network"
    /\ dep = IdleFrame
    /\ cur = [idx |-> 0, size |-> 0, buffer_level |-> 0, check_abandon |-> NoCallback,
              kind |-> "none", result |-> DownloadResult(download(W, 0, 0, NoCallback))]
    /\ env = [delays |-> 0, abandons |-> 0]

(* NetworkModel.download(size, idx, quality, buffer_level, check_abandon) *)
(* with check_abandon a callback that returns None, or None itself        *)
RoundingDownload ==
    /\ pc = "network"
    /\ cur.idx < MaxRoundingCalls
    /\ \E size \in RoundingSizes, ca \in {NullCallback, NoCallback} :
         LET r == download(W, size, 0, ca)
         IN  /\ gs' = r.w.g
             /\ network' = r.w.n
             /\ cur' = [idx |-> cur.idx + 1, size |-> size, buffer_level |-> 0,
                        check_abandon |-> ca, kind |-> "download", result |-> DownloadResult(r)]
    /\ UNCHANGED <<args, pc, dep, env>>

(* NetworkModel.delay(time) between two downloads *)
RoundingDelay ==
    /\ pc = "network"
    /\ cur.kind # "delay"
    /\ cur.idx < MaxRoundingCalls
    /\ \E time \in RoundingDelays :
         LET w == delay(W, time)
         IN  /\ gs' = w.g
             /\ network' = w.n
    /\ cur' = [cur EXCEPT !.kind = "delay"]
    /\ UNCHANGED <<args, pc, dep, env>>

RoundingNext == RoundingDownload \/ RoundingDelay

SpecRounding == RoundingInit /\ [][RoundingNext]_vars

(* what download without a callback gives from the cursor w, against the  *)
(* progress dp and the cursor after of a download of the same size       *)
SameAsWithoutCallback(w, size, dp, after) ==
    LET plain == download(w, size, 0, NoCallback)
    IN  /\ dp = plain.dp
        /\ after = plain.w
        /\ dp.downloaded = size
        /\ dp.abandon_to_quality = None

\* C35: from every cursor and for every size > 0, NetworkModel.download
\* with a callback that always returns null gives what download without a
\* callback gives: downloaded = size, abandon_to_quality = null, the same
\* time_to_first_bit and time, the same final cursor and network_total_time.
C35_NullCallbackChangesNothing ==
    [][cur'.idx = cur.idx + 1 /\ cur'.check_abandon = NullCallback
         => SameAsWithoutCallback(W, cur'.size, cur'.result.dp, W')]_vars

\* the same from any cursor where every quotient of the code is exact
ExactNullCallbackChangesNothing ==
    \A size \in CheckpointSizes :
        LET checked == download(W, size, 0, NullCallback)
        IN  SameAsWithoutCallback(W, size, checked.dp, checked.w)

-----------------------------------------------------------------------------
\* C36: at the end of the run every seek of the schedule whose
\* seek_when*1000 is smaller than the final total_play_time has been
\* applied: none of them is still in gs.seek_events.
C36_DueSeeksApplied ==
    pc = "done" =>
        \A i \in 1 .. Len(gs.seek_events) :
            gs.seek_events[i].seek_when * 1000 >= gs.total_play_time

====
